---- MODULE Spec2Model ----
(***************************************************************************)
(* Model of cvxportfolio's decision-time engine: the incremental           *)
(* forecasters and their online cache (forecast.py) and the multi-period   *)
(* optimization policy (policies.py).                                      *)
(*                                                                         *)
(* Returns are small integers (a fixed-point scale); a quotient sum/count  *)
(* is kept as the exact fraction <<numerator, denominator>>.  A cell of    *)
(* the returns table is <<v>> for the value v and <<>> for a missing one.  *)
(***************************************************************************)
EXTENDS Integers, Sequences, FiniteSets, TLC

\* the market data, the forecasters, the online cache and its use
VARIABLES returns, fc, cache, runs, last
\* one optimization policy: its construction, its compiled program, the values the
\* solver left in its variables, and its latest execute call
VARIABLES policy, problem, sol, trace, outcome

fvars == <<returns, fc, cache, runs, last>>
pvars == <<policy, problem, sol, trace, outcome>>
vars == <<fvars, pvars>>

----------------------------------------------------------------------------
(* Bounds *)

\* number of rows of the returns table; row s carries timestamp s
MaxT == 3
\* most invocations of one forecaster's computation for one timestamp
MaxRuns == 2
\* longest planning horizon of a policy
MaxHorizon == 2

----------------------------------------------------------------------------
(* The market data *)

\* the universe: non-cash assets, then the cash account (always last)
universe == <<"AAPL", "MSFT", "cash">>
NCols == Len(universe)
\* past_returns.iloc[:, :-1]: every column but cash
NonCash == 1..(NCols - 1)

NaN == <<>>
RetVals == {1, 2}
Cells == {NaN} \cup {<<v>> : v \in RetVals}
\* the rows drawn: the cash return is 0; each asset has present and missing returns
Rows == {<< <<1>>, <<2>>, <<0>> >>, << <<2>>, <<1>>, <<0>> >>, << <<2>>, NaN, <<0>> >>,
         << NaN, <<1>>, <<0>> >>, << NaN, NaN, <<0>> >>}
Histories == [1..MaxT -> Rows]

\* the times at which a forecaster is refreshed: the history before t is never empty
Times == 2..(MaxT + 1)

\* market_data.serve(t): the rows with timestamp strictly before t
past_returns(t) == SubSeq(returns, 1, t - 1)

isnull(cell) == cell = NaN
fillna(cell, v) == IF isnull(cell) THEN v ELSE cell[1]
nonnull(cell) == IF isnull(cell) THEN 0 ELSE 1

\* pandas DataFrame.count() of one column: the number of non-missing cells
RECURSIVE count(_, _)
count(past, c) ==
    IF past = <<>> THEN 0
    ELSE count(Tail(past), c) + (IF isnull(Head(past)[c]) THEN 0 ELSE 1)

\* pandas DataFrame.sum() of one column: missing cells are skipped
RECURSIVE sum(_, _)
sum(past, c) ==
    IF past = <<>> THEN 0
    ELSE sum(Tail(past), c) + (IF isnull(Head(past)[c]) THEN 0 ELSE Head(past)[c][1])

\* (past ** 2).sum() of one column
RECURSIVE sumsq(_, _)
sumsq(past, c) ==
    IF past = <<>> THEN 0
    ELSE sumsq(Tail(past), c)
         + (IF isnull(Head(past)[c]) THEN 0 ELSE Head(past)[c][1] * Head(past)[c][1])

fill0(cell) == fillna(cell, 0)

\* (~past_returns.iloc[:, :-1].isnull()) * 1.
nonnull_table(past) == [r \in 1..Len(past) |-> [c \in NonCash |-> nonnull(past[r][c])]]

\* past_returns.iloc[:, :-1].fillna(0.)
filled_table(past) == [r \in 1..Len(past) |-> [c \in NonCash |-> fill0(past[r][c])]]

\* (A.T @ B)[i][j]: the sum over the rows of A[row][i] * B[row][j]
RECURSIVE dot(_, _, _, _)
dot(A, B, i, j) ==
    IF A = <<>> THEN 0
    ELSE dot(Tail(A), Tail(B), i, j) + Head(A)[i] * Head(B)[j]

\* the exact quotient n / d (0 / 0 is numpy's nan)
Frac(n, d) == <<n, d>>
FracIsNan(q) == q[2] = 0
\* q - p * r on fractions
FracSubProd(q, p, r) == <<q[1] * p[2] * r[2] - p[1] * r[1] * q[2], q[2] * p[2] * r[2]>>

----------------------------------------------------------------------------
(* Forecasters: forecast.py *)

\* _last_time = None
NoTime == 0
\* _last_counts = None, _last_sum = None, ...
None == <<>>

HistoricalMeanReturn == [cls |-> "HistoricalMeanReturn",
    _last_time |-> NoTime, _last_counts |-> None, _last_sum |-> None,
    current_value |-> None]

HistoricalVariance(kelly) == [cls |-> "HistoricalVariance", kelly |-> kelly,
    meanforecaster |-> IF kelly THEN None ELSE HistoricalMeanReturn,
    _last_time |-> NoTime, _last_counts |-> None, _last_sum |-> None,
    current_value |-> None]

HistoricalFactorizedCovariance(kelly) == [
    cls |-> "HistoricalFactorizedCovariance", kelly |-> kelly,
    _last_time |-> NoTime, _last_counts_matrix |-> None,
    _last_sum_matrix |-> None, _joint_mean |-> None]

HistoricalLowRankCovarianceSVD(num_factors, svd_iters) == [
    cls |-> "HistoricalLowRankCovarianceSVD",
    num_factors |-> num_factors, svd_iters |-> svd_iters, svd |-> "numpy"]

\* HistoricalMeanReturn._initial_compute
HistoricalMeanReturn__initial_compute(f, t, past) ==
    [f EXCEPT !._last_counts = [c \in NonCash |-> count(past, c)],
              !._last_sum = [c \in NonCash |-> sum(past, c)],
              !._last_time = t]

\* an update that counts a missing value as an observation of zero
HistoricalMeanReturn__online_update_CountsMissing(f, t, past) ==
    LET lastrow == past[Len(past)] IN
    [f EXCEPT !._last_counts = [c \in NonCash |-> f._last_counts[c] + 1],
              !._last_sum = [c \in NonCash |-> f._last_sum[c] + fillna(lastrow[c], 0)],
              !._last_time = t]

\* HistoricalMeanReturn._online_update
HistoricalMeanReturn__online_update(f, t, past) ==
    LET lastrow == past[Len(past)] IN
    [f EXCEPT !._last_counts = [c \in NonCash |-> f._last_counts[c] + nonnull(lastrow[c])],
              !._last_sum = [c \in NonCash |-> f._last_sum[c] + fillna(lastrow[c], 0)],
              !._last_time = t]

\* HistoricalVariance._initial_compute
HistoricalVariance__initial_compute(f, t, past) ==
    [f EXCEPT !._last_counts = [c \in NonCash |-> count(past, c)],
              !._last_sum = [c \in NonCash |-> sumsq(past, c)],
              !._last_time = t]

\* an update that adds the return instead of its square
HistoricalVariance__online_update_NotSquared(f, t, past) ==
    LET lastrow == past[Len(past)] IN
    [f EXCEPT !._last_counts = [c \in NonCash |-> f._last_counts[c] + nonnull(lastrow[c])],
              !._last_sum = [c \in NonCash |-> f._last_sum[c] + fillna(lastrow[c], 0)],
              !._last_time = t]

\* HistoricalVariance._online_update
HistoricalVariance__online_update(f, t, past) ==
    LET lastrow == past[Len(past)] IN
    [f EXCEPT !._last_counts = [c \in NonCash |-> f._last_counts[c] + nonnull(lastrow[c])],
              !._last_sum = [c \in NonCash |->
                    f._last_sum[c] + fillna(lastrow[c], 0) * fillna(lastrow[c], 0)],
              !._last_time = t]

\* HistoricalFactorizedCovariance._get_count_matrix
_get_count_matrix(past) ==
    [i \in NonCash |-> [j \in NonCash |-> dot(nonnull_table(past), nonnull_table(past), i, j)]]

\* HistoricalFactorizedCovariance._get_initial_joint_mean
_get_initial_joint_mean(past) ==
    [i \in NonCash |-> [j \in NonCash |-> dot(nonnull_table(past), filled_table(past), i, j)]]

\* HistoricalFactorizedCovariance._initial_compute
HistoricalFactorizedCovariance__initial_compute(f, t, past) ==
    [f EXCEPT !._last_counts_matrix = _get_count_matrix(past),
              !._last_sum_matrix =
                    [i \in NonCash |-> [j \in NonCash |-> dot(filled_table(past), filled_table(past), i, j)]],
              !._joint_mean = IF f.kelly THEN f._joint_mean
                              ELSE _get_initial_joint_mean(past),
              !._last_time = t]

\* an update that counts a missing value as an observation
HistoricalFactorizedCovariance__online_update_CountsMissing(f, t, past) ==
    LET lastrow == past[Len(past)] IN
    [f EXCEPT !._last_counts_matrix = [i \in NonCash |-> [j \in NonCash |->
                    f._last_counts_matrix[i][j] + 1]],
              !._last_sum_matrix = [i \in NonCash |-> [j \in NonCash |->
                    f._last_sum_matrix[i][j] + fill0(lastrow[i]) * fill0(lastrow[j])]],
              !._joint_mean = f._joint_mean,
              !._last_time = t]

\* HistoricalFactorizedCovariance._online_update; the DataFrame _joint_mean += the
\* Series last_ret adds last_ret[j] to every row of column j
HistoricalFactorizedCovariance__online_update(f, t, past) ==
    LET lastrow == past[Len(past)] IN
    [f EXCEPT !._last_counts_matrix = [i \in NonCash |-> [j \in NonCash |->
                    f._last_counts_matrix[i][j] + nonnull(lastrow[i]) * nonnull(lastrow[j])]],
              !._last_sum_matrix = [i \in NonCash |-> [j \in NonCash |->
                    f._last_sum_matrix[i][j] + fill0(lastrow[i]) * fill0(lastrow[j])]],
              !._joint_mean = IF f.kelly THEN f._joint_mean
                              ELSE [i \in NonCash |-> [j \in NonCash |->
                                        f._joint_mean[i][j] + fill0(lastrow[j])]],
              !._last_time = t]

\* the class's own _initial_compute
_initial_compute(f, t, past) ==
    CASE f.cls = "HistoricalMeanReturn" -> HistoricalMeanReturn__initial_compute(f, t, past)
      [] f.cls = "HistoricalVariance" -> HistoricalVariance__initial_compute(f, t, past)
      [] f.cls = "HistoricalFactorizedCovariance" ->
            HistoricalFactorizedCovariance__initial_compute(f, t, past)

\* the class's own _online_update
_online_update(f, t, past) ==
    CASE f.cls = "HistoricalMeanReturn" -> HistoricalMeanReturn__online_update(f, t, past)
      [] f.cls = "HistoricalVariance" -> HistoricalVariance__online_update(f, t, past)
      [] f.cls = "HistoricalFactorizedCovariance" ->
            HistoricalFactorizedCovariance__online_update(f, t, past)

\* a choice that compares the last-seen timestamp with t, not with the last row's
_agnostic_mode_ComparesT(f, t, past) ==
    IF f._last_time = NoTime \/ f._last_time # t THEN "scratch" ELSE "update"

\* BaseForecast._agnostic_update: the branch taken
_agnostic_mode(f, t, past) ==
    IF f._last_time = NoTime \/ f._last_time # Len(past) THEN "scratch" ELSE "update"

\* BaseForecast._agnostic_update
_agnostic_update(f, t, past) ==
    IF _agnostic_mode(f, t, past) = "scratch"
    THEN _initial_compute(f, t, past)
    ELSE _online_update(f, t, past)

\* HistoricalMeanReturn.values_in_time: the forecaster after the call, with its value
HistoricalMeanReturn_values_in_time(f, t, past) ==
    LET g == _agnostic_update(f, t, past) IN
    [g EXCEPT !.current_value = [c \in NonCash |-> Frac(g._last_sum[c], g._last_counts[c])]]

\* HistoricalVariance.values_in_time, after its meanforecaster was refreshed
HistoricalVariance_values_in_time(f, t, past) ==
    LET m == IF f.kelly THEN None
             ELSE HistoricalMeanReturn_values_in_time(f.meanforecaster, t, past)
        g == _agnostic_update([f EXCEPT !.meanforecaster = m], t, past)
    IN  [g EXCEPT !.current_value = [c \in NonCash |->
            IF f.kelly THEN Frac(g._last_sum[c], g._last_counts[c])
            ELSE FracSubProd(Frac(g._last_sum[c], g._last_counts[c]),
                             m.current_value[c], m.current_value[c])]]

\* the covariance estimate of HistoricalFactorizedCovariance.values_in_time
covariance(g) ==
    [i \in NonCash |-> [j \in NonCash |->
        IF g.kelly THEN Frac(g._last_sum_matrix[i][j], g._last_counts_matrix[i][j])
        ELSE FracSubProd(Frac(g._last_sum_matrix[i][j], g._last_counts_matrix[i][j]),
                         Frac(g._joint_mean[j][i], g._last_counts_matrix[j][i]),
                         Frac(g._joint_mean[i][j], g._last_counts_matrix[i][j]))]]

\* numpy.linalg.eigh raises LinAlgError on a matrix with a nan entry
LinAlgError(cov) == \E i \in NonCash, j \in NonCash : FracIsNan(cov[i][j])

\* project_on_psd_cone_and_factorize: the square-root factor, a function of the matrix
project_on_psd_cone_and_factorize(cov) == <<"factor", cov>>

\* HistoricalLowRankCovarianceSVD.build_low_rank_model: a function of its arguments
build_low_rank_model(rets, num_factors, iters) ==
    <<"low_rank_model", rets, num_factors, iters>>

----------------------------------------------------------------------------
(* The online cache: a dict keyed by forecaster objects *)

\* fields that leave svd_iters out of the comparison and the hash
dataclass_fields_WithoutIters(f) ==
    CASE f.cls = "HistoricalLowRankCovarianceSVD" -> <<f.num_factors, f.svd>>
      [] f.cls = "HistoricalFactorizedCovariance" -> <<f.kelly>>
      [] f.cls = "HistoricalVariance" -> <<f.kelly>>
      [] OTHER -> <<>>

\* the fields a dataclass compares and hashes
dataclass_fields(f) ==
    CASE f.cls = "HistoricalLowRankCovarianceSVD" -> <<f.num_factors, f.svd_iters, f.svd>>
      [] f.cls = "HistoricalFactorizedCovariance" -> <<f.kelly>>
      [] f.cls = "HistoricalVariance" -> <<f.kelly>>
      [] OTHER -> <<>>

\* @dataclass(unsafe_hash=True): __hash__ is the hash of the tuple of fields
dataclass_hash(f) == dataclass_fields(f)

\* @dataclass: __eq__ holds for the same class and equal tuples of fields
dataclass_eq(f, g) == f.cls = g.cls /\ dataclass_fields(f) = dataclass_fields(g)

\* dict lookup: the position of the entry whose key hashes and compares equal, or 0
dict_find(d, f) ==
    LET hits == {k \in 1..Len(d) :
                    /\ dataclass_hash(fc[d[k].key]) = dataclass_hash(f)
                    /\ dataclass_eq(fc[d[k].key], f)}
    IN  IF hits = {} THEN 0 ELSE CHOOSE k \in hits : \A m \in hits : k <= m

\* no call was made yet
NoCall == [i |-> 0, t |-> NoTime, mode |-> "none", raised |-> "", result |-> None,
           prev |-> None]

\* no optimization policy is part of the run
NoPolicy ==
    /\ policy = None /\ problem = None /\ sol = None
    /\ trace = <<>> /\ outcome = None

----------------------------------------------------------------------------
(* Calls *)

\* the record of the latest call: who, when, the branch taken, the error raised,
\* the value returned and (for an uncached forecaster) the forecaster before the call
Call(i, t, mode, raised, result, prev) ==
    [i |-> i, t |-> t, mode |-> mode, raised |-> raised, result |-> result, prev |-> prev]

\* HistoricalFactorizedCovariance.values_in_time (undecorated): the forecaster after
\* the call, the error raised if any, and the value returned
HistoricalFactorizedCovariance_values_in_time(f, t, past) ==
    LET g == _agnostic_update(f, t, past)
        cov == covariance(g)
    IN  [fc |-> g,
         mode |-> _agnostic_mode(f, t, past),
         raised |-> IF LinAlgError(cov) THEN "ForecastError" ELSE "",
         result |-> IF LinAlgError(cov) THEN None
                    ELSE project_on_psd_cone_and_factorize(cov)]

\* HistoricalLowRankCovarianceSVD.values_in_time (undecorated)
HistoricalLowRankCovarianceSVD_values_in_time(f, t, past) ==
    [fc |-> f, mode |-> "compute", raised |-> "",
     result |-> build_low_rank_model(
                    [r \in 1..Len(past) |-> [c \in NonCash |-> past[r][c]]],
                    f.num_factors, f.svd_iters)]

\* the decorated method of the class
values_in_time(f, t, past) ==
    IF f.cls = "HistoricalFactorizedCovariance"
    THEN HistoricalFactorizedCovariance_values_in_time(f, t, past)
    ELSE HistoricalLowRankCovarianceSVD_values_in_time(f, t, past)

\* the count of a key's computations: those invoked, those that returned, the
\* invocation that stored the value, and the value it stored
NoRuns == [n |-> 0, returned |-> 0, stored_at |-> 0, value |-> None]

\* a wrapper that never finds the timestamp in the cache
in_cache_Never(entry, t) == FALSE

\* t in cache[self]
in_cache(entry, t) == t \in DOMAIN entry.vals

\* a wrapper that stores what the computation left, also when it raised
wrapped_StoresOnRaise(i, t) ==
    LET self == fc[i]
        found == dict_find(cache, self)
        cache1 == IF found = 0 THEN Append(cache, [key |-> i, vals |-> <<>>]) ELSE cache
        runs1 == IF found = 0 THEN Append(runs, [s \in Times |-> NoRuns]) ELSE runs
        k == IF found = 0 THEN Len(cache1) ELSE found
    IN  IF in_cache(cache1[k], t)
        THEN /\ last' = Call(i, t, "hit", "", cache1[k].vals[t], None)
             /\ cache' = cache1
             /\ runs' = runs1
             /\ UNCHANGED <<returns, fc>>
        ELSE LET out == values_in_time(self, t, past_returns(t)) IN
             /\ runs1[k][t].n < MaxRuns
             /\ fc' = [fc EXCEPT ![i] = out.fc]
             /\ last' = Call(i, t, out.mode, out.raised, out.result, None)
             /\ cache' = [cache1 EXCEPT ![k].vals = (t :> out.result) @@ @]
             /\ runs' = [runs1 EXCEPT ![k][t] = [@ EXCEPT !.n = @ + 1]]
             /\ UNCHANGED returns

\* online_cache.wrapped, called on forecaster i at time t with the policy's cache
wrapped(i, t) ==
    LET self == fc[i]
        found == dict_find(cache, self)
        \* if not self in cache: cache[self] = {}
        cache1 == IF found = 0 THEN Append(cache, [key |-> i, vals |-> <<>>]) ELSE cache
        runs1 == IF found = 0 THEN Append(runs, [s \in Times |-> NoRuns]) ELSE runs
        k == IF found = 0 THEN Len(cache1) ELSE found
    IN  IF in_cache(cache1[k], t)
        THEN /\ last' = Call(i, t, "hit", "", cache1[k].vals[t], None)
             /\ cache' = cache1
             /\ runs' = runs1
             /\ UNCHANGED <<returns, fc>>
        ELSE LET out == values_in_time(self, t, past_returns(t)) IN
             /\ runs1[k][t].n < MaxRuns
             /\ fc' = [fc EXCEPT ![i] = out.fc]
             /\ last' = Call(i, t, out.mode, out.raised, out.result, None)
             /\ cache' = IF out.raised # "" THEN cache1
                         ELSE [cache1 EXCEPT ![k].vals = (t :> out.result) @@ @]
             /\ runs' = [runs1 EXCEPT ![k][t] =
                            IF out.raised # "" THEN [@ EXCEPT !.n = @ + 1]
                            ELSE [n |-> @.n + 1, returned |-> @.returned + 1,
                                  stored_at |-> @.n + 1, value |-> out.result]]
             /\ UNCHANGED returns

\* a cached forecaster is asked for its value at t
CachedValuesInTime(i, t) ==
    /\ fc[i].cls \in {"HistoricalFactorizedCovariance", "HistoricalLowRankCovarianceSVD"}
    /\ wrapped(i, t)
    /\ UNCHANGED pvars

\* HistoricalMeanReturn is refreshed at t
MeanValuesInTime(i, t) ==
    /\ fc[i].cls = "HistoricalMeanReturn"
    /\ fc' = [fc EXCEPT ![i] = HistoricalMeanReturn_values_in_time(@, t, past_returns(t))]
    /\ last' = Call(i, t, _agnostic_mode(fc[i], t, past_returns(t)), "",
                    fc'[i].current_value, fc[i])
    /\ UNCHANGED <<returns, cache, runs>>
    /\ UNCHANGED pvars

\* HistoricalVariance is refreshed at t, its meanforecaster first
VarianceValuesInTime(i, t) ==
    /\ fc[i].cls = "HistoricalVariance"
    /\ fc' = [fc EXCEPT ![i] = HistoricalVariance_values_in_time(@, t, past_returns(t))]
    /\ last' = Call(i, t, _agnostic_mode(fc[i], t, past_returns(t)), "",
                    fc'[i].current_value, fc[i])
    /\ UNCHANGED <<returns, cache, runs>>
    /\ UNCHANGED pvars

\* __post_init__ of the forecaster's class: a forecaster as constructed
__post_init__(f) ==
    CASE f.cls = "HistoricalMeanReturn" -> HistoricalMeanReturn
      [] f.cls = "HistoricalVariance" -> HistoricalVariance(f.kelly)
      [] f.cls = "HistoricalFactorizedCovariance" -> HistoricalFactorizedCovariance(f.kelly)

\* initialize_estimator of an incremental forecaster
InitializeEstimator(i) ==
    /\ fc[i].cls # "HistoricalLowRankCovarianceSVD"
    /\ fc[i]._last_time # NoTime
    /\ fc' = [fc EXCEPT ![i] = __post_init__(@)]
    /\ last' = NoCall
    /\ UNCHANGED <<returns, cache, runs>>
    /\ UNCHANGED pvars

----------------------------------------------------------------------------
(* One uncached forecaster, HistoricalMeanReturn or HistoricalVariance, on any history *)

Forecasters ==
    {HistoricalMeanReturn, HistoricalVariance(TRUE), HistoricalVariance(FALSE)}

InitForecast ==
    /\ returns \in Histories
    /\ fc \in [{1} -> Forecasters]
    /\ cache = <<>>
    /\ runs = <<>>
    /\ last = NoCall
    /\ NoPolicy

NextForecast ==
    \/ \E i \in DOMAIN fc, t \in Times : MeanValuesInTime(i, t)
    \/ \E i \in DOMAIN fc, t \in Times : VarianceValuesInTime(i, t)
    \/ \E i \in DOMAIN fc : InitializeEstimator(i)

SpecForecast == InitForecast /\ [][NextForecast]_vars

----------------------------------------------------------------------------
(* One HistoricalFactorizedCovariance with the cache of its policy, on any history *)

InitCovariance ==
    /\ returns \in Histories
    /\ fc \in [{1} -> {HistoricalFactorizedCovariance(TRUE),
                       HistoricalFactorizedCovariance(FALSE)}]
    /\ cache = <<>>
    /\ runs = <<>>
    /\ last = NoCall
    /\ NoPolicy

NextCovariance ==
    \/ \E i \in DOMAIN fc, t \in Times : CachedValuesInTime(i, t)
    \/ \E i \in DOMAIN fc : InitializeEstimator(i)

SpecCovariance == InitCovariance /\ [][NextCovariance]_vars

----------------------------------------------------------------------------
(* Two cached forecasters sharing the cache of one policy *)

\* the pairs drawn: equal, or differing in type or in one configuration field
CachedForecasterPairs ==
    {<<HistoricalFactorizedCovariance(TRUE), HistoricalFactorizedCovariance(TRUE)>>,
     <<HistoricalFactorizedCovariance(FALSE), HistoricalFactorizedCovariance(TRUE)>>,
     <<HistoricalFactorizedCovariance(TRUE), HistoricalLowRankCovarianceSVD(1, 10)>>,
     <<HistoricalLowRankCovarianceSVD(1, 10), HistoricalLowRankCovarianceSVD(1, 10)>>,
     <<HistoricalLowRankCovarianceSVD(1, 10), HistoricalLowRankCovarianceSVD(1, 5)>>,
     <<HistoricalLowRankCovarianceSVD(1, 10), HistoricalLowRankCovarianceSVD(2, 10)>>}

\* the first row has a missing value, the later rows are complete
CacheHistories ==
    {h \in Histories :
        /\ h[1] = << NaN, <<1>>, <<0>> >>
        /\ \A r \in 2..MaxT : h[r] \in {<< <<2>>, <<1>>, <<0>> >>}}

InitCache ==
    /\ returns \in CacheHistories
    /\ fc \in CachedForecasterPairs
    /\ cache = <<>>
    /\ runs = <<>>
    /\ last = NoCall
    /\ NoPolicy

NextCache == \E i \in DOMAIN fc, t \in Times : CachedValuesInTime(i, t)

SpecCache == InitCache /\ [][NextCache]_vars

----------------------------------------------------------------------------
(* Properties of the online cache *)

\* C1 as claimed: the computation of a key (forecaster, t) is invoked at most once
C1_ComputedAtMostOnce ==
    \A k \in 1..Len(runs), t \in Times : runs[k][t].n <= 1

\* C1 amended: the computation of a key (forecaster, t) returns at most once; the
\* value it returns is stored, the computation is never invoked again after it, and
\* every later call with the key returns that value.  (A computation that raises
\* stores nothing and is invoked again by the next call.)
C1_StoredNeverRecomputed ==
    /\ Len(runs) = Len(cache)
    /\ \A k \in 1..Len(runs), t \in Times :
          LET r == runs[k][t] IN
          /\ r.returned <= 1
          /\ r.returned = 1 <=> t \in DOMAIN cache[k].vals
          /\ r.returned = 1 => (r.n = r.stored_at /\ cache[k].vals[t] = r.value)
    /\ last.mode = "hit" =>
          last.result = runs[dict_find(cache, fc[last.i])][last.t].value

\* C1 witness: a call with a key whose value another, configuration-identical
\* forecaster computed is served from the cache
C1_Witness ==
    /\ last.mode = "hit"
    /\ last.i = 2
    /\ cache[dict_find(cache, fc[2])].key = 1
    /\ runs[dict_find(cache, fc[2])][last.t].n = 1
    /\ fc[2].cls = "HistoricalFactorizedCovariance"
    /\ fc[2]._last_time = NoTime

\* same type and same configuration fields
SameTypeAndConfiguration(f, g) ==
    /\ f.cls = g.cls
    /\ f.cls = "HistoricalFactorizedCovariance" => f.kelly = g.kelly
    /\ f.cls = "HistoricalLowRankCovarianceSVD" =>
          (f.num_factors = g.num_factors /\ f.svd_iters = g.svd_iters /\ f.svd = g.svd)

\* C2: two forecasters use the same cache entry exactly when they have the same type
\* and the same configuration fields, and a value served from the cache was stored
\* under a forecaster of the caller's type and configuration
C2_SharedEntryIffSameConfiguration ==
    /\ \A a \in DOMAIN fc, b \in DOMAIN fc :
          (dict_find(cache, fc[a]) # 0 /\ dict_find(cache, fc[b]) # 0)
          => (dict_find(cache, fc[a]) = dict_find(cache, fc[b])
                <=> SameTypeAndConfiguration(fc[a], fc[b]))
    /\ \A k \in 1..Len(cache), m \in 1..Len(cache) :
          SameTypeAndConfiguration(fc[cache[k].key], fc[cache[m].key]) => k = m
    /\ last.mode = "hit" =>
          \E k \in 1..Len(cache) :
              /\ SameTypeAndConfiguration(fc[cache[k].key], fc[last.i])
              /\ last.t \in DOMAIN cache[k].vals
              /\ last.result = cache[k].vals[last.t]

\* C2 witness: two forecasters that differ in one configuration field only hold
\* separate entries for the same timestamp
C2_Witness ==
    /\ fc[1].cls = "HistoricalLowRankCovarianceSVD"
    /\ fc[2].cls = "HistoricalLowRankCovarianceSVD"
    /\ fc[1].num_factors = fc[2].num_factors
    /\ fc[1].svd_iters # fc[2].svd_iters
    /\ Len(cache) = 2
    /\ 3 \in DOMAIN cache[1].vals /\ 3 \in DOMAIN cache[2].vals

----------------------------------------------------------------------------
(* Properties of the forecasters *)

MeanOrVariance(f) == f.cls \in {"HistoricalMeanReturn", "HistoricalVariance"}
Incremental(f) == f.cls # "HistoricalLowRankCovarianceSVD"

NoMissing(past) == \A r \in 1..Len(past) : \A c \in NonCash : ~isnull(past[r][c])

\* the sufficient statistics a forecaster holds
Stats(f) ==
    IF f.cls = "HistoricalFactorizedCovariance"
    THEN <<f._last_time, f._last_counts_matrix, f._last_sum_matrix, f._joint_mean>>
    ELSE <<f._last_time, f._last_counts, f._last_sum>>

\* the forecaster of f's class and configuration after one scratch computation at t
\* over the rows past
Scratch(f, t, past) ==
    CASE f.cls = "HistoricalMeanReturn" ->
            HistoricalMeanReturn_values_in_time(__post_init__(f), t, past)
      [] f.cls = "HistoricalVariance" ->
            HistoricalVariance_values_in_time(__post_init__(f), t, past)
      [] f.cls = "HistoricalFactorizedCovariance" ->
            HistoricalFactorizedCovariance__initial_compute(__post_init__(f), t, past)

\* C3: on a history without missing values, the counts, sums and value that
\* HistoricalMeanReturn and HistoricalVariance hold after any sequence of one scratch
\* computation and incremental updates up to row k are those of one scratch
\* computation over the rows before k
C3_IncrementalEqualsScratch ==
    \A i \in DOMAIN fc :
        (/\ MeanOrVariance(fc[i])
         /\ fc[i]._last_time # NoTime
         /\ NoMissing(past_returns(fc[i]._last_time)))
        => LET f == fc[i]
               past == past_returns(f._last_time)
           IN  /\ f._last_counts = [c \in NonCash |-> count(past, c)]
               /\ f._last_sum = [c \in NonCash |->
                      IF f.cls = "HistoricalMeanReturn" THEN sum(past, c) ELSE sumsq(past, c)]
               /\ f.current_value = Scratch(f, f._last_time, past).current_value

\* C3 witness: a second incremental update in a row on a history without missing values
C3_Witness ==
    \E i \in DOMAIN fc :
        /\ fc[i].cls = "HistoricalVariance"
        /\ last.i = i /\ last.mode = "update" /\ last.t = 4
        /\ last.prev._last_time = 3
        /\ last.prev._last_counts[1] = 2
        /\ NoMissing(past_returns(4))
        /\ past_returns(4)[3][1] = <<2>>

\* the history with the cell of row r, column c replaced by the value x
WithValue(r, c, x) == [returns EXCEPT ![r][c] = <<x>>]

\* C5: a missing value at row r, column c lowers only column c's count by one and adds
\* nothing to column c's sum: against a scratch computation on the history with a value
\* x in its place, column c has one observation less and x (or its square) less in the
\* sum, and every other column the same count, sum and value
C5_MissingExcluded ==
    \A i \in DOMAIN fc :
        (MeanOrVariance(fc[i]) /\ fc[i]._last_time # NoTime)
        => LET f == fc[i]
               t == f._last_time
           IN  \A r \in 1..(t - 1), c \in NonCash, x \in RetVals :
                   isnull(returns[r][c])
                   => LET ref == Scratch(f, t, SubSeq(WithValue(r, c, x), 1, t - 1))
                      IN  /\ f._last_counts[c] = ref._last_counts[c] - 1
                          /\ f._last_sum[c] = ref._last_sum[c]
                                - (IF f.cls = "HistoricalMeanReturn" THEN x ELSE x * x)
                          /\ \A d \in NonCash \ {c} :
                                /\ f._last_counts[d] = ref._last_counts[d]
                                /\ f._last_sum[d] = ref._last_sum[d]
                                /\ f.current_value[d] = ref.current_value[d]

\* C5 witness: an incremental update with a row in which one column is missing and
\* another is present
C5_Witness ==
    \E i \in DOMAIN fc :
        /\ MeanOrVariance(fc[i])
        /\ last.i = i /\ last.mode = "update"
        /\ isnull(returns[last.t - 1][1])
        /\ ~isnull(returns[last.t - 1][2])

\* C6: a refresh at t recomputes from scratch exactly when the last-seen timestamp is
\* unset or differs from the timestamp of the last row of the history, and otherwise
\* applies one incremental update that uses that last row only; either way the
\* last-seen timestamp becomes t
C6_ScratchOrUpdate ==
    (last.mode \in {"scratch", "update"})
    => LET p == last.prev
           t == last.t
           past == past_returns(t)
           f == fc[last.i]
       IN  /\ f._last_time = t
           /\ IF p._last_time = NoTime \/ p._last_time # Len(past)
              THEN Stats(f) = Stats(_initial_compute(p, t, past))
              ELSE /\ Stats(f) = Stats(_online_update(p, t, past))
                   /\ Stats(f) = Stats(_online_update(p, t, <<past[Len(past)]>>))

\* C6 witness: a refresh at the time of the previous one, which recomputes from scratch
C6_Witness ==
    /\ last.mode = "scratch"
    /\ last.prev._last_time = last.t
    /\ fc[last.i].cls = "HistoricalMeanReturn"

\* C4: after an incremental update of HistoricalFactorizedCovariance with the newest
\* row, in either mode and with or without missing values, the statistics it holds
\* (pairwise counts, pairwise product sums, joint first-moment sums) are those of a
\* scratch computation over all the rows up to that row
C4_CovarianceIncrementalEqualsScratch ==
    \A i \in DOMAIN fc :
        (/\ fc[i].cls = "HistoricalFactorizedCovariance"
         /\ last.i = i /\ last.mode = "update" /\ last.raised = "")
        => Stats(fc[i]) = Stats(Scratch(fc[i], last.t, past_returns(last.t)))

----------------------------------------------------------------------------
(* Optimization policies: policies.py *)

\* an event of one execute call: what was done, on which stage, on which of its constraints
Event(name, i, j) == <<name, i, j>>

\* no error
NoError == <<"", 0, 0>>

\* an error, with the stage and the position of the object it carries
Error(name, i, j) == <<name, i, j>>

\* the sequences of a sequence, one after the other
RECURSIVE flatten_heterogeneous_list(_)
flatten_heterogeneous_list(li) ==
    IF li = <<>> THEN <<>>
    ELSE Head(li) \o flatten_heterogeneous_list(Tail(li))

\* costs, by the curvature cvxpy finds in their compiled expression: risk-adjusted
\* return, return plus risk (DCP, not concave), and a term outside the DCP grammar
Costs ==
    { [cost |-> "ReturnsForecast - FullCovariance", curvature |-> "CONCAVE", cash_return |-> FALSE],
      [cost |-> "ReturnsForecast + FullCovariance", curvature |-> "CONVEX", cash_return |-> FALSE],
      [cost |-> "Custom", curvature |-> "UNKNOWN", cash_return |-> FALSE] }

\* el + CashReturn(): the cash return is affine, the curvature stays
plus_CashReturn(el) == [el EXCEPT !.cash_return = TRUE]

\* a constraint whose compilation is one DCP inequality on the non-cash weights
LongOnly ==
    [name |-> "LongOnly",
     parts |-> << [rel |-> "w_plus[:-1] >= 0", is_dcp |-> TRUE] >>]

\* a constraint whose compilation is a lower bound on a convex cost
CostInequalityConstraint ==
    [name |-> "FullCovariance >= 2",
     parts |-> << [rel |-> "risk >= 2", is_dcp |-> FALSE] >>]

\* a constraint whose compilation is a list: a DCP part, then a part that is not
CustomConstraint ==
    [name |-> "Custom",
     parts |-> << [rel |-> "w_plus[:-1] >= 0", is_dcp |-> TRUE],
                  [rel |-> "risk >= 2", is_dcp |-> FALSE] >>]

\* the lists of constraints of one stage
ConstraintLists ==
    { <<>>, <<LongOnly>>, <<CostInequalityConstraint>>, <<LongOnly, CustomConstraint>> }

\* AllCash.values_in_time: all weight on the last column
AllCash_values_in_time(columns) ==
    [k \in 1..Len(columns) |-> IF k = Len(columns) THEN 1 ELSE 0]

\* the end of MultiPeriodOptimization.__init__, common to its two forms
MultiPeriodOptimization__init__(objective, constraints, include_cash_return, planning_horizon, terminal_constraint) ==
    [cls |-> "MultiPeriodOptimization",
     _planning_horizon |-> planning_horizon,
     objective |-> IF include_cash_return
                   THEN [i \in DOMAIN objective |-> plus_CashReturn(objective[i])]
                   ELSE objective,
     constraints |-> constraints,
     _include_cash_return |-> include_cash_return,
     terminal_constraint |-> terminal_constraint,
     benchmark |-> "AllCash",
     w_bm |-> None,
     w_current |-> None,
     _cache |-> None,
     _current_value |-> None]

\* MultiPeriodOptimization(objective, constraints, ...) with a list of objectives and
\* a list of lists of constraints of the same length: one of each per stage
MultiPeriodOptimization_of_lists(objective, constraints, include_cash_return, terminal_constraint) ==
    MultiPeriodOptimization__init__(objective, constraints, include_cash_return,
                                    Len(objective), terminal_constraint)

\* MultiPeriodOptimization(objective, constraints, planning_horizon=..., ...) with one
\* objective and one list of constraints: a copy of each per stage
MultiPeriodOptimization(objective, constraints, include_cash_return, planning_horizon, terminal_constraint) ==
    MultiPeriodOptimization__init__([i \in 1..planning_horizon |-> objective],
                                    [i \in 1..planning_horizon |-> constraints],
                                    include_cash_return, planning_horizon,
                                    terminal_constraint)

\* a single-period policy that never adds the cash-return term
SinglePeriodOptimization_NoCashReturn(objective, constraints, include_cash_return) ==
    [MultiPeriodOptimization_of_lists(<<objective>>, <<constraints>>, FALSE, None)
       EXCEPT !.cls = "SinglePeriodOptimization",
              !._include_cash_return = include_cash_return]

\* SinglePeriodOptimization(objective, constraints, ...)
SinglePeriodOptimization(objective, constraints, include_cash_return) ==
    [MultiPeriodOptimization_of_lists(<<objective>>, <<constraints>>,
                                      include_cash_return, None)
       EXCEPT !.cls = "SinglePeriodOptimization"]

\* the stages of a policy, the first being today
Stages(pol) == 1..pol._planning_horizon

\* the constraints of all stages in the order the code visits them, each with its
\* stage and its position in the stage's list
\* an enumeration that stops after the constraints of the first stage
constraints_in_order_FirstStage(pol) ==
    [j \in DOMAIN pol.constraints[1] |->
        [i |-> 1, j |-> j, constr |-> pol.constraints[1][j]]]

constraints_in_order(pol) ==
    flatten_heterogeneous_list(
        [i \in Stages(pol) |->
            [j \in DOMAIN pol.constraints[i] |->
                [i |-> i, j |-> j, constr |-> pol.constraints[i][j]]]])

\* Expression.is_dcp() of a compiled objective term
is_dcp(term) == term.curvature # "UNKNOWN"

\* a check of concavity that lets a convex term pass
is_concave_OrConvex(term) == term.curvature \in {"CONCAVE", "CONVEX"}

\* Expression.is_concave() of a compiled objective term
is_concave(term) == term.curvature = "CONCAVE"

\* the smallest number of a nonempty set of numbers
first(S) == CHOOSE n \in S : \A m \in S : n <= m

\* the check of the compiled objective terms, in the order of the stages: the error
\* of the first term that fails one, or none
check_objective(pol) ==
    LET bad == {i \in Stages(pol) :
                    ~is_dcp(pol.objective[i]) \/ ~is_concave(pol.objective[i])}
    IN  IF bad = {} THEN NoError
        ELSE IF ~is_dcp(pol.objective[first(bad)])
             THEN Error("ConvexSpecificationError", first(bad), 0)
             ELSE Error("ConvexityError", first(bad), 0)

\* a check that looks at the first part only
constraint_not_dcp_FirstPart(constr) == ~constr.parts[1].is_dcp

\* compile_and_check_constraint fails on a constraint that has a part outside DCP
constraint_not_dcp(constr) ==
    \E p \in DOMAIN constr.parts : ~constr.parts[p].is_dcp

\* the positions in constraints_in_order of the constraints that fail the check
bad_constraints(pol) ==
    LET user == constraints_in_order(pol)
    IN  {n \in DOMAIN user : constraint_not_dcp(user[n].constr)}

\* dynamics that start every stage from the current weights
dynamics_previous_AlwaysCurrent(i) == 0

\* the previous weights of the dynamics of a stage: the parameter w_current (0) for the
\* first, the post-trade weights of the stage before for the others
dynamics_previous(i) == i - 1

\* a program whose first stage has no budget constraint
budget_NotFirstStage(H) ==
    [n \in 1..(H - 1) |-> [type |-> "budget", i |-> n + 1, prev |-> 0,
                           rel |-> "sum(z) == 0", value |-> None]]

\* the budget constraints: the trade of every stage sums to zero
budget(H) ==
    [i \in 1..H |-> [type |-> "budget", i |-> i, prev |-> 0,
                     rel |-> "sum(z) == 0", value |-> None]]

\* the constraints of the compiled program: the parts of the user's constraints, the
\* budget of every stage, the dynamics and the benchmark-relative weights of every
\* stage, and the terminal constraint if there is one
cvxpy_constraints(pol) ==
    LET user == constraints_in_order(pol)
        H == pol._planning_horizon
    IN  flatten_heterogeneous_list(
            [n \in DOMAIN user |->
                [p \in DOMAIN user[n].constr.parts |->
                    [type |-> "user", i |-> user[n].i, prev |-> 0,
                     rel |-> user[n].constr.parts[p].rel, value |-> None]]])
        \o budget(H)
        \o flatten_heterogeneous_list(
            [i \in 1..H |->
                << [type |-> "dynamics", i |-> i, prev |-> dynamics_previous(i),
                    rel |-> "w_plus == z + w", value |-> None],
                   [type |-> "benchmark", i |-> i, prev |-> 0,
                    rel |-> "w_plus - w_bm == w_plus_minus_w_bm", value |-> None] >>])
        \o (IF pol.terminal_constraint # None
            THEN << [type |-> "terminal", i |-> H, prev |-> 0,
                     rel |-> "w == terminal_constraint",
                     value |-> pol.terminal_constraint] >>
            ELSE <<>>)

\* Problem.is_dcp() of the program: a sum of concave terms under DCP constraints
problem_is_dcp(pol) ==
    /\ \A i \in Stages(pol) : is_concave(pol.objective[i])
    /\ bad_constraints(pol) = {}

\* _compile_to_cvxpy: the error it raises, the events up to it, and the program
_compile_to_cvxpy(pol) ==
    LET H == pol._planning_horizon
        user == constraints_in_order(pol)
        bad == bad_constraints(pol)
        objective_error == check_objective(pol)
        begin == << Event("_compile_to_cvxpy", 0, 0) >>
                 \o [i \in 1..H |-> Event("compile_objective", i, 0)]
        upto == IF bad = {} THEN Len(user) ELSE first(bad)
        checked == [n \in 1..upto |-> Event("compile_constraint", user[n].i, user[n].j)]
    IN  IF objective_error # NoError
        THEN [raised |-> objective_error, trace |-> begin, problem |-> None]
        ELSE IF bad # {}
        THEN [raised |-> Error("ConvexSpecificationError", user[upto].i, user[upto].j),
              trace |-> begin \o checked, problem |-> None]
        ELSE IF ~problem_is_dcp(pol)
        THEN [raised |-> Error("SyntaxError", 0, 0),
              trace |-> begin \o checked \o << Event("Problem", 0, 0) >>,
              problem |-> None]
        ELSE [raised |-> NoError,
              trace |-> begin \o checked \o << Event("Problem", 0, 0) >>,
              problem |-> [stages |-> H, constraints |-> cvxpy_constraints(pol),
                           status |-> ""]]

\* MultiPeriodOptimization.initialize_estimator_recursive on a policy whose program is
\* prob: the objectives, the constraints and the benchmark are initialized, the
\* parameters and the variables allocated, the cache emptied, the program compiled.
\* The program stays what it was if the compilation raises.
initialize_estimator_recursive(pol, prob) ==
    LET H == pol._planning_horizon
        user == constraints_in_order(pol)
        c == _compile_to_cvxpy(pol)
    IN  [policy |-> [pol EXCEPT !.w_bm = None, !.w_current = None, !._cache = <<>>],
         problem |-> IF c.raised = NoError THEN c.problem ELSE prob,
         raised |-> c.raised,
         trace |-> [i \in 1..H |-> Event("initialize_objective", i, 0)]
                   \o [n \in DOMAIN user |->
                          Event("initialize_constraint", user[n].i, user[n].j)]
                   \o << Event("initialize_benchmark", 0, 0),
                         Event("allocate", 0, 0),
                         Event("reset_cache", 0, 0) >>
                   \o c.trace]

----------------------------------------------------------------------------
(* The compiled program and its solver *)

\* the columns of the market data served to the policy: one asset, and the cash
columns == <<"AAPL", "cash">>

\* the values a solver may leave in one entry of a trade, of post-trade weights and of
\* benchmark-relative weights: the box of the search
Domain(name) ==
    CASE name = "z" -> -1..1
      [] name = "w_plus" -> (0 - MaxHorizon)..(MaxHorizon + 1)
      [] name = "w_plus_minus_w_bm" -> (0 - MaxHorizon - 1)..(MaxHorizon + 1)

\* the n-th scalar variable of a program: entry by entry, stage by stage
Variable(n) ==
    << <<"z", "w_plus", "w_plus_minus_w_bm">>[((n - 1) % 3) + 1],
       ((n - 1) \div (3 * Len(columns))) + 1,
       (((n - 1) \div 3) % Len(columns)) + 1 >>

\* the scalar relations of one constraint: one per entry, or one for a sum
elements(c) ==
    CASE c.type = "budget" -> {[c |-> c, k |-> 0]}
      [] c.type = "user" -> {[c |-> c, k |-> k] : k \in 1..(Len(columns) - 1)}
      [] OTHER -> {[c |-> c, k |-> k] : k \in DOMAIN columns}

\* the variables of a scalar relation
variables(e) ==
    CASE e.c.type = "budget" -> {<<"z", e.c.i, k>> : k \in DOMAIN columns}
      [] e.c.type = "user" -> {<<"w_plus", e.c.i, e.k>>}
      [] e.c.type = "dynamics" ->
            {<<"w_plus", e.c.i, e.k>>, <<"z", e.c.i, e.k>>}
            \cup (IF e.c.prev = 0 THEN {} ELSE {<<"w_plus", e.c.prev, e.k>>})
      [] e.c.type = "benchmark" ->
            {<<"w_plus", e.c.i, e.k>>, <<"w_plus_minus_w_bm", e.c.i, e.k>>}
      [] e.c.type = "terminal" -> {<<"w_plus", e.c.i, e.k>>}

\* the sum of the entries of a vector
RECURSIVE np_sum(_)
np_sum(h) == IF h = <<>> THEN 0 ELSE Head(h) + np_sum(Tail(h))

\* whether the values a of the variables satisfy a scalar relation, under the values
\* par of the parameters w_current and w_bm
holds(e, a, par) ==
    CASE e.c.type = "budget" ->
            np_sum([k \in DOMAIN columns |-> a[<<"z", e.c.i, k>>]]) = 0
      [] e.c.type = "user" -> a[<<"w_plus", e.c.i, e.k>>] >= 0
      [] e.c.type = "dynamics" ->
            a[<<"w_plus", e.c.i, e.k>>]
              = a[<<"z", e.c.i, e.k>>]
                + (IF e.c.prev = 0 THEN par.w_current[e.k]
                   ELSE a[<<"w_plus", e.c.prev, e.k>>])
      [] e.c.type = "benchmark" ->
            a[<<"w_plus", e.c.i, e.k>>] - par.w_bm[e.k]
              = a[<<"w_plus_minus_w_bm", e.c.i, e.k>>]
      [] e.c.type = "terminal" ->
            a[<<"w_plus", e.c.i, e.k>>] = e.c.value[e.k]

\* the values of the first n variables that satisfy every relation among them, from
\* those of the first n - 1
RECURSIVE extend(_, _, _, _, _)
extend(n, last_n, partial, E, par) ==
    IF n > last_n THEN partial
    ELSE LET v == Variable(n)
             assigned == {Variable(m) : m \in 1..n}
             decided == {e \in E : v \in variables(e) /\ variables(e) \subseteq assigned}
             more == {(v :> x) @@ a : a \in partial, x \in Domain(v[1])}
         IN  extend(n + 1, last_n,
                    {b \in more : \A e \in decided : holds(e, b, par)}, E, par)

\* the values of the variables of a program that satisfy all of its constraints
feasible(prob, par) ==
    extend(1, 3 * Len(columns) * prob.stages, {<<>>},
           UNION {elements(prob.constraints[n]) : n \in DOMAIN prob.constraints}, par)

\* what Problem.solve may do: raise SolverError, or end with one of these statuses, the
\* last of them a status that values_in_time_recursive does not name
Statuses ==
    {"optimal", "optimal_inaccurate", "infeasible", "infeasible_inaccurate",
     "unbounded", "unbounded_inaccurate", "error"}

\* a test of the status that lets the inaccurate statuses through
raising_statuses_Accurate == {"unbounded", "infeasible"}

\* the statuses that make values_in_time_recursive raise
raising_statuses ==
    {"unbounded", "unbounded_inaccurate", "infeasible", "infeasible_inaccurate"}

\* a vector over the columns with no number in it
NaNs == [k \in DOMAIN columns |-> NaN]

\* current_weights + pd.Series(z_at_lags[0].value, index): the current weights plus the
\* first-stage trade the variables hold, and no number if they hold no value
extract(current_weights, values) ==
    IF values = None THEN NaNs
    ELSE [k \in DOMAIN current_weights |-> current_weights[k] + values[<<"z", 1, k>>]]

SolverOutcomes == Statuses \cup {"SolverError"}

\* MultiPeriodOptimization.values_in_time_recursive on a compiled policy, with the
\* outcome of the solver and the values it leaves in the variables
values_in_time_recursive(pol, prob, past_columns, current_weights, current_portfolio_value, solver, values) ==
    LET H == pol._planning_horizon
        user == constraints_in_order(pol)
        w_bm == AllCash_values_in_time(past_columns)
        refreshed == [pol EXCEPT !.w_bm = w_bm, !.w_current = current_weights]
        refresh == [i \in 1..H |-> Event("refresh_objective", i, 0)]
                   \o [n \in DOMAIN user |->
                          Event("refresh_constraint", user[n].i, user[n].j)]
                   \o << Event("refresh_benchmark", 0, 0),
                         Event("set_parameters", 0, 0),
                         Event("solve", 0, 0) >>
        result == extract(current_weights, values)
    IN  IF ~(current_portfolio_value > 0)
        THEN [policy |-> pol, problem |-> prob, sol |-> None, trace |-> <<>>,
              raised |-> Error("DataError", 0, 0), result |-> None]
        ELSE IF np_sum(current_weights) # 1
        THEN [policy |-> pol, problem |-> prob, sol |-> None, trace |-> <<>>,
              raised |-> Error("AssertionError", 0, 0), result |-> None]
        ELSE IF solver = "SolverError"
        THEN [policy |-> refreshed, problem |-> prob, sol |-> None, trace |-> refresh,
              raised |-> Error("PortfolioOptimizationError", 0, 0), result |-> None]
        ELSE IF solver \in raising_statuses
        THEN [policy |-> refreshed, problem |-> [prob EXCEPT !.status = solver],
              sol |-> None, trace |-> refresh,
              raised |-> Error("PortfolioOptimizationError", 0, 0), result |-> None]
        ELSE [policy |-> [refreshed EXCEPT !._current_value = result],
              problem |-> [prob EXCEPT !.status = solver],
              sol |-> values, trace |-> refresh,
              raised |-> NoError, result |-> result]

\* a rounding of the quotient n / d down to an integer
np_round_Floor(n, d) == n \div d

\* np.round of the quotient n / d, d > 0: to the nearest integer, a half to the even one
np_round(n, d) ==
    LET q == n \div d
        r == n % d
    IN  IF 2 * r < d THEN q
        ELSE IF 2 * r > d THEN q + 1
        ELSE IF q % 2 = 0 THEN q ELSE q + 1

\* the trading calendar of the market data
trading_calendar == [n \in 1..MaxT |-> n + 1]

\* the times of the trading calendar
calendar_times == {trading_calendar[n] : n \in DOMAIN trading_calendar}

\* the weights h / v; with v = 0 the division gives no number
weights(h, v) == IF v = 0 THEN None ELSE [k \in DOMAIN h |-> h[k] \div v]

\* an initialization on first use only: nothing is done once a program is compiled
execute_initialize_OnFirstUse(pol, prob) ==
    IF prob # None
    THEN [policy |-> pol, problem |-> prob, raised |-> NoError, trace |-> <<>>]
    ELSE initialize_estimator_recursive(pol, prob)

\* Policy.execute initializes the policy on every call, compiled or not
execute_initialize(pol, prob) == initialize_estimator_recursive(pol, prob)

\* what Policy.execute returns
Returned(u, t, shares_traded) == [u |-> u, t |-> t, shares_traded |-> shares_traded]

\* a check of the holdings that never raises
negative_sum_Never(v) == FALSE

\* the check of the holdings in Policy.execute: their sum is negative
negative_sum(v) == v < 0

\* Policy.execute(h, market_data, t) on a policy whose variables hold the values held,
\* up to the initialization of the policy: the time is resolved and checked, the
\* holdings summed and turned to weights, the market data served, the policy
\* initialized, which allocates new variables that hold no value
execute_begin(pol, prob, held, h, t0) ==
    LET t == IF t0 = NoTime THEN trading_calendar[Len(trading_calendar)] ELSE t0
        v == np_sum(h)
        init == execute_initialize(pol, prob)
        start == << Event("sum", 0, 0) >>
        serve == << Event("serve", 0, 0) >>
    IN  IF t \notin {trading_calendar[n] : n \in DOMAIN trading_calendar}
        THEN [policy |-> pol, problem |-> prob, sol |-> held, trace |-> <<>>,
              raised |-> Error("AssertionError", 0, 0), t |-> t, v |-> v, w |-> None]
        ELSE IF negative_sum(v)
        THEN [policy |-> pol, problem |-> prob, sol |-> held, trace |-> start,
              raised |-> Error("DataError", 0, 0), t |-> t, v |-> v, w |-> None]
        ELSE [policy |-> init.policy, problem |-> init.problem, sol |-> None,
              trace |-> start \o serve \o init.trace,
              raised |-> init.raised, t |-> t, v |-> v, w |-> weights(h, v)]

\* Policy.execute from there, if nothing was raised: the policy is refreshed, with the
\* outcome of the solver and the values it leaves in the variables, and the trades and
\* the shares are computed from the post-trade weights and the current_prices served.
\* Trades that are no numbers have no shares: the conversion of the rounded quotients
\* to integers raises.
execute_end(begun, current_prices, solver, values) ==
    LET step == values_in_time_recursive(begun.policy, begun.problem, columns,
                                         begun.w, begun.v, solver, values)
        u == IF step.sol = None THEN NaNs
             ELSE [k \in DOMAIN begun.w |-> (step.result[k] - begun.w[k]) * begun.v]
        shares_traded ==
            IF current_prices # None
            THEN [k \in DOMAIN current_prices |-> np_round(u[k], current_prices[k])]
            ELSE None
    IN  IF begun.raised # NoError
        THEN [policy |-> begun.policy, problem |-> begun.problem, sol |-> begun.sol,
              trace |-> begun.trace, raised |-> begun.raised, returned |-> None]
        ELSE IF step.raised # NoError
        THEN [policy |-> step.policy, problem |-> step.problem, sol |-> None,
              trace |-> begun.trace \o step.trace,
              raised |-> step.raised, returned |-> None]
        ELSE IF step.sol = None /\ current_prices # None
        THEN [policy |-> step.policy, problem |-> step.problem, sol |-> None,
              trace |-> begun.trace \o step.trace,
              raised |-> Error("ValueError", 0, 0), returned |-> None]
        ELSE [policy |-> step.policy, problem |-> step.problem, sol |-> step.sol,
              trace |-> begun.trace \o step.trace,
              raised |-> NoError, returned |-> Returned(u, begun.t, shares_traded)]

\* how many times an event is in a trace
occurrences(tr, name) == Cardinality({n \in DOMAIN tr : tr[n][1] = name})

\* holdings in dollars, the cash last: all in the asset, all in cash, a negative
\* total and a total of zero
Holdings == { <<1, 0>>, <<0, 2>>, <<-1, 0>>, <<1, -1>> }

\* the open prices the market data serves for the non-cash assets, or none
Prices == { None, <<3>> }

\* the time passed to execute: none, or one that is not in the calendar
ExecuteTimes == { NoTime, MaxT + 2 }

\* the terminal weights a policy may be given: none, all cash, and weights that do
\* not sum to one
TerminalConstraints == { None, <<0, 1>>, <<0, 0>> }

Policies ==
    UNION {
        { MultiPeriodOptimization_of_lists(objective, constraints, TRUE, terminal) :
            objective \in [1..H -> Costs], constraints \in [1..H -> ConstraintLists],
            terminal \in TerminalConstraints }
        \cup
        { MultiPeriodOptimization(objective, constraints, icr, H, None) :
            objective \in Costs, constraints \in ConstraintLists, icr \in BOOLEAN }
        : H \in 1..MaxHorizon }
    \cup
    { SinglePeriodOptimization(objective, constraints, icr) :
        objective \in Costs, constraints \in ConstraintLists, icr \in BOOLEAN }

\* the weights of the holdings that have any
CurrentWeights == {weights(h, np_sum(h)) : h \in {g \in Holdings : np_sum(g) > 0}}

\* the programs of the policies that compile
Programs ==
    {_compile_to_cvxpy(pol).problem :
        pol \in {p \in Policies : _compile_to_cvxpy(p).raised = NoError}}

\* the values a solver may leave in the variables of a program when it finds an optimum
\* under current weights w: those that satisfy the constraints
solutions ==
    [prob \in Programs |->
        [w \in CurrentWeights |->
            feasible(prob, [w_current |-> w, w_bm |-> AllCash_values_in_time(columns)])]]

----------------------------------------------------------------------------
(* One optimization policy, executed on any holdings *)

\* the values the solver may leave in the variables of the call that has begun
found(begun) ==
    IF begun.raised = NoError /\ begun.v > 0
    THEN solutions[[begun.problem EXCEPT !.status = ""]][begun.w]
    ELSE {}

\* one call of Policy.execute on the policy
Execute(h, t) ==
    /\ policy # None
    /\ \E begun \in {execute_begin(policy, problem, sol, h, t)} :
       \E values \in found(begun) \cup {None}, current_prices \in Prices :
       \E solver \in IF values # None THEN {"optimal", "optimal_inaccurate"}
                     ELSE IF begun.raised = NoError /\ begun.v > 0
                     THEN SolverOutcomes \ {"optimal", "optimal_inaccurate"}
                     ELSE {"SolverError"} :
           \E r \in {execute_end(begun, current_prices, solver, values)} :
               /\ policy' = r.policy
               /\ problem' = r.problem
               /\ sol' = r.sol
               /\ trace' = r.trace
               /\ outcome' = [raised |-> r.raised, returned |-> r.returned,
                              compiled_before |-> problem # None,
                              h |-> h, t |-> t, current_prices |-> current_prices]
    /\ UNCHANGED fvars

InitPolicy ==
    /\ returns = <<>>
    /\ fc = <<>>
    /\ cache = <<>>
    /\ runs = <<>>
    /\ last = NoCall
    /\ policy \in Policies
    /\ problem = None
    /\ sol = None
    /\ trace = <<>>
    /\ outcome = None

NextPolicy == \E h \in Holdings, t \in ExecuteTimes : Execute(h, t)

SpecPolicy == InitPolicy /\ [][NextPolicy]_vars

----------------------------------------------------------------------------
(* Policies of fixed trades and of fixed weights, on data the user provides *)

\* the bits of the significand of the floating-point numbers of the policies, scaled
\* down from the 53 of a float64: weights are counted in eighths
significand_bits == 3

\* the number of bits of a natural number
RECURSIVE bit_length(_)
bit_length(n) == IF n = 0 THEN 0 ELSE 1 + bit_length(n \div 2)

\* the floating-point number nearest to an integer: its leading significand_bits bits
\* are kept, the rest rounded to the nearest, a half to the even one
float(n) ==
    LET m == IF n < 0 THEN 0 - n ELSE n
        e == bit_length(m) - significand_bits
        r == IF e <= 0 THEN m ELSE np_round(m, 2 ^ e) * (2 ^ e)
    IN  IF n < 0 THEN 0 - r ELSE r

\* a difference that leaves the first vector as it is
sub_KeepsFirst(a, b) == a

\* the sum and the difference of two vectors of floating-point numbers
add(a, b) == [k \in DOMAIN a |-> float(a[k] + b[k])]
sub(a, b) == [k \in DOMAIN a |-> float(a[k] - b[k])]

\* the rows of the data a user provides: weights of the asset and of the cash, and a
\* row with a missing value
FixedRows == { << <<3>>, <<5>> >>, << <<2>>, <<-2>> >>, << <<3>>, NaN >> }

\* the data a user provides: a row for each of one or two times of the calendar
FixedData ==
    UNION {[index -> FixedRows] :
              index \in {I \in SUBSET calendar_times : Cardinality(I) \in {1, 2}}}

\* DataEstimator(data, data_includes_cash=True): the estimator of user-provided data
DataEstimator(data) == [data |-> data, current_value |-> None]

\* DataEstimator.values_in_time_recursive at time t: the row of the data at t;
\* MissingTimesError if the data has no row at t, DataError if the row has a missing
\* value
DataEstimator_values_in_time_recursive(est, t) ==
    IF t \notin DOMAIN est.data
    THEN [estimator |-> est, raised |-> Error("MissingTimesError", 0, 0)]
    ELSE IF \E k \in DOMAIN est.data[t] : isnull(est.data[t][k])
    THEN [estimator |-> est, raised |-> Error("DataError", 0, 0)]
    ELSE [estimator |-> [est EXCEPT !.current_value =
                                 [k \in DOMAIN est.data[t] |-> est.data[t][k][1]]],
          raised |-> NoError]

\* FixedTrades(trades_weights) and FixedWeights(target_weights)
FixedTrades(trades_weights) ==
    [cls |-> "FixedTrades", trades_weights |-> DataEstimator(trades_weights),
     _current_value |-> None]

FixedWeights(target_weights) ==
    [cls |-> "FixedWeights", target_weights |-> DataEstimator(target_weights),
     _current_value |-> None]

\* leaving a try block through its finally clause, "self._current_value = result;
\* return result", when the block raised an error that no except clause caught and
\* that left result unassigned: the assignment raises UnboundLocalError in its place
finally_unbound(pol) ==
    [policy |-> pol, raised |-> Error("UnboundLocalError", 0, 0), result |-> None]

\* FixedTrades.values_in_time_recursive
FixedTrades_values_in_time_recursive(pol, t, current_weights) ==
    LET c == DataEstimator_values_in_time_recursive(pol.trades_weights, t)
        result == add(current_weights, c.estimator.current_value)
    IN  IF c.raised = NoError
        THEN [policy |-> [pol EXCEPT !.trades_weights = c.estimator,
                                     !._current_value = result],
              raised |-> NoError, result |-> result]
        ELSE IF c.raised[1] = "MissingTimesError"
        THEN [policy |-> [pol EXCEPT !._current_value = current_weights],
              raised |-> NoError, result |-> current_weights]
        ELSE finally_unbound(pol)

\* FixedWeights.values_in_time_recursive
FixedWeights_values_in_time_recursive(pol, t, current_weights) ==
    LET c == DataEstimator_values_in_time_recursive(pol.target_weights, t)
        result == sub(add(current_weights, c.estimator.current_value), current_weights)
    IN  IF c.raised = NoError
        THEN [policy |-> [pol EXCEPT !.target_weights = c.estimator,
                                     !._current_value = result],
              raised |-> NoError, result |-> result]
        ELSE IF c.raised[1] = "MissingTimesError"
        THEN [policy |-> [pol EXCEPT !._current_value = current_weights],
              raised |-> NoError, result |-> current_weights]
        ELSE finally_unbound(pol)

\* the current weights the policies are evaluated at, in eighths
FixedCurrentWeights == { <<6, 2>>, <<4, 4>>, <<0, 8>> }

FixedPolicies ==
    {FixedTrades(data) : data \in FixedData} \cup {FixedWeights(data) : data \in FixedData}

\* one call of values_in_time_recursive on the policy
FixedValuesInTime(t, current_weights) ==
    /\ policy # None
    /\ \E r \in {IF policy.cls = "FixedTrades"
                  THEN FixedTrades_values_in_time_recursive(policy, t, current_weights)
                  ELSE FixedWeights_values_in_time_recursive(policy, t, current_weights)} :
          /\ policy' = r.policy
          /\ outcome' = [raised |-> r.raised, returned |-> r.result, t |-> t,
                         current_weights |-> current_weights]
    /\ UNCHANGED <<problem, sol, trace>>
    /\ UNCHANGED fvars

InitFixed ==
    /\ returns = <<>>
    /\ fc = <<>>
    /\ cache = <<>>
    /\ runs = <<>>
    /\ last = NoCall
    /\ policy \in FixedPolicies
    /\ problem = None
    /\ sol = None
    /\ trace = <<>>
    /\ outcome = None

NextFixed ==
    \E t \in calendar_times, current_weights \in FixedCurrentWeights :
        FixedValuesInTime(t, current_weights)

SpecFixed == InitFixed /\ [][NextFixed]_vars

----------------------------------------------------------------------------
(* One optimization policy with the forecasters of its terms and its cache,
   initialized again when the universe changes *)

\* an initialization that leaves the forecasters as they are
initialize_forecasters_KeepsState(f) == f

\* the initialization of the objective terms of a policy reaches every forecaster of
\* the tree: initialize_estimator of an incremental forecaster is its __post_init__;
\* HistoricalLowRankCovarianceSVD has none, and no state
initialize_forecasters(f) ==
    [i \in DOMAIN f |->
        IF f[i].cls = "HistoricalLowRankCovarianceSVD" THEN f[i] ELSE __post_init__(f[i])]

\* the forecasters of the terms of an objective: of a forecast of returns and a full
\* covariance, and of a diagonal and a low-rank covariance
ForecasterTrees ==
    { << HistoricalMeanReturn, HistoricalFactorizedCovariance(TRUE) >>,
      << HistoricalVariance(FALSE), HistoricalLowRankCovarianceSVD(1, 10) >> }

\* the returns of a universe: the same row at every time, one row or another
UniverseHistories ==
    { [r \in 1..MaxT |-> row] :
         row \in { << <<1>>, <<2>>, <<0>> >>, << <<2>>, <<1>>, <<0>> >> } }

\* the mark of an initialization in the record of the latest call
Initialized == Call(0, NoTime, "initialize", "", None, None)

\* MultiPeriodOptimization.initialize_estimator_recursive when the universe changes to
\* one with the returns h: the forecasters of the objective terms are initialized, the
\* cache of the policy is a new empty dict, and the program is compiled again. Which
\* forecasters held state and which entries of the cache held values before, and
\* whether the returns are others, is kept in outcome.
InitializeEstimatorRecursive(h) ==
    /\ policy # None
    /\ \E init \in {initialize_estimator_recursive(policy, problem)} :
          /\ policy' = init.policy
          /\ problem' = init.problem
          /\ trace' = init.trace
    /\ sol' = None
    /\ returns' = h
    /\ fc' = initialize_forecasters(fc)
    /\ cache' = <<>>
    /\ runs' = <<>>
    /\ last' = Initialized
    /\ outcome' = [universe_changed |-> h # returns,
                   refreshed |-> {i \in DOMAIN fc : fc[i].cls # "HistoricalLowRankCovarianceSVD"
                                                    /\ fc[i]._last_time # NoTime},
                   cached |-> {k \in DOMAIN cache : cache[k].vals # <<>>}]

InitReinit ==
    /\ returns \in UniverseHistories
    /\ fc \in ForecasterTrees
    /\ cache = <<>>
    /\ runs = <<>>
    /\ last = NoCall
    /\ policy = MultiPeriodOptimization(
                    [cost |-> "ReturnsForecast - FullCovariance", curvature |-> "CONCAVE",
                     cash_return |-> FALSE], <<>>, TRUE, 1, None)
    /\ problem = None
    /\ sol = None
    /\ trace = <<>>
    /\ outcome = None

NextReinit ==
    \/ \E i \in DOMAIN fc, t \in Times : MeanValuesInTime(i, t)
    \/ \E i \in DOMAIN fc, t \in Times : VarianceValuesInTime(i, t)
    \/ \E i \in DOMAIN fc, t \in Times : CachedValuesInTime(i, t)
    \/ \E h \in UniverseHistories : InitializeEstimatorRecursive(h)

SpecReinit == InitReinit /\ [][NextReinit]_vars

----------------------------------------------------------------------------
(* Two optimization policies built from objects of the caller: fc is the heap, a
   policy holds its objective terms by reference *)

\* the objective terms the caller has built: each a forecast of returns with its
\* HistoricalMeanReturn
CallerObjects == << HistoricalMeanReturn, HistoricalMeanReturn >>

\* MultiPeriodOptimization.__init__ on the heap, given one objective term by reference
\* and a planning horizon: with a horizon above one every stage gets a copy of the
\* term, a new object; with a horizon of one, as with a list of terms (the form that
\* SinglePeriodOptimization uses), the policy keeps the reference it was given
MultiPeriodOptimization_on_heap(heap, objective, planning_horizon) ==
    IF planning_horizon > 1
    THEN [heap |-> heap \o [i \in 1..planning_horizon |-> heap[objective]],
          policy |-> [_planning_horizon |-> planning_horizon,
                      objective |-> [i \in 1..planning_horizon |-> Len(heap) + i],
                      _cache |-> None, compiled |-> FALSE]]
    ELSE [heap |-> heap,
          policy |-> [_planning_horizon |-> planning_horizon,
                      objective |-> << objective >>,
                      _cache |-> None, compiled |-> FALSE]]

\* the objects of the heap that a policy reaches
reachable(pol) == {pol.objective[i] : i \in DOMAIN pol.objective}

\* initialize_estimator_recursive of policy p: its objective terms are initialized, its
\* cache is a new empty dict, and its program is compiled
PolicyInitialize(p) ==
    /\ fc' = [i \in DOMAIN fc |->
                 IF i \in reachable(policy[p]) THEN __post_init__(fc[i]) ELSE fc[i]]
    /\ policy' = [policy EXCEPT ![p]._cache = <<>>, ![p].compiled = TRUE]
    /\ outcome' = [p |-> p, t |-> NoTime]
    /\ UNCHANGED <<returns, cache, runs, last, problem, sol, trace>>

\* values_in_time_recursive of policy p at time t: its objective terms are refreshed
PolicyValuesInTime(p, t) ==
    /\ policy[p].compiled
    /\ fc' = [i \in DOMAIN fc |->
                 IF i \in reachable(policy[p])
                 THEN HistoricalMeanReturn_values_in_time(fc[i], t, past_returns(t))
                 ELSE fc[i]]
    /\ outcome' = [p |-> p, t |-> t]
    /\ UNCHANGED <<returns, cache, runs, last, policy, problem, sol, trace>>

InitInstances ==
    /\ returns \in UniverseHistories
    /\ cache = <<>>
    /\ runs = <<>>
    /\ last = NoCall
    /\ \E o1 \in DOMAIN CallerObjects, o2 \in DOMAIN CallerObjects :
       \E H1 \in 1..MaxHorizon, H2 \in 1..MaxHorizon :
       \E made1 \in {MultiPeriodOptimization_on_heap(CallerObjects, o1, H1)} :
       \E made2 \in {MultiPeriodOptimization_on_heap(made1.heap, o2, H2)} :
          /\ fc = made2.heap
          /\ policy = << made1.policy, made2.policy >>
    /\ problem = None
    /\ sol = None
    /\ trace = <<>>
    /\ outcome = None

NextInstances ==
    \/ \E p \in {1, 2} : PolicyInitialize(p)
    \/ \E p \in {1, 2}, t \in Times : PolicyValuesInTime(p, t)

SpecInstances == InitInstances /\ [][NextInstances]_vars

----------------------------------------------------------------------------
(* The policy that trades in equal proportions to targets, refreshed day after day *)

\* the floating-point number nearest to the quotient of an integer by a positive one
float_div(n, d) ==
    LET m == IF n < 0 THEN 0 - n ELSE n
        e == bit_length(m \div d) - significand_bits
        r == IF e <= 0 THEN np_round(m, d) ELSE np_round(m, d * (2 ^ e)) * (2 ^ e)
    IN  IF n < 0 THEN 0 - r ELSE r

\* the quotient of a vector of floating-point numbers by a number of days
div(a, d) == [k \in DOMAIN a |-> float_div(a[k], d)]

\* the rows of the targets a user provides, in eighths: weights of the asset and of
\* the cash, and a row that does not sum to one
TargetRows == { <<1, 7>>, <<8, 0>>, <<3, 3>> }

\* the days of the targets: days of the trading calendar and the day after its last
TargetDays == calendar_times \cup {MaxT + 2}

\* the targets a user provides: no row, or a row for each of one or two days
Targets ==
    UNION {[index -> TargetRows] :
              index \in {I \in SUBSET TargetDays : Cardinality(I) \in {0, 1, 2}}}

\* ProportionalTradeToTargets(targets)
ProportionalTradeToTargets(targets) ==
    [cls |-> "ProportionalTradeToTargets", targets |-> targets, trading_days |-> None]

\* ProportionalTradeToTargets.initialize_estimator
ProportionalTradeToTargets_initialize_estimator(pol, calendar) ==
    [pol EXCEPT !.trading_days = calendar]

\* self.targets.loc[self.targets.index >= t]: the days of the targets at or after t
next_targets(pol, t) == {day \in DOMAIN pol.targets : day >= t}

\* np.allclose(next_targets.sum(1), 1.): the floating-point sum of every row of the
\* targets at or after t is one, eight eighths
sums_to_one(pol, t) ==
    \A day \in next_targets(pol, t) :
        float(pol.targets[day][1] + pol.targets[day][2]) = 8

\* a count of the trading days up to the day of the target and that day too
trading_days_to_target_Inclusive(pol, t, next_target_day) ==
    Cardinality({n \in DOMAIN pol.trading_days :
                    pol.trading_days[n] >= t /\ pol.trading_days[n] <= next_target_day})

\* the number of trading days at or after t and before the day of the next target
trading_days_to_target(pol, t, next_target_day) ==
    Cardinality({n \in DOMAIN pol.trading_days :
                    pol.trading_days[n] >= t /\ pol.trading_days[n] < next_target_day})

\* ProportionalTradeToTargets.values_in_time
ProportionalTradeToTargets_values_in_time(pol, t, current_weights) ==
    IF ~sums_to_one(pol, t)
    THEN [raised |-> Error("ValueError", 0, 0), result |-> None]
    ELSE IF next_targets(pol, t) = {}
    THEN [raised |-> NoError, result |-> current_weights]
    ELSE LET next_target_day ==
                 CHOOSE day \in next_targets(pol, t) :
                     \A other \in next_targets(pol, t) : day <= other
             next_target == pol.targets[next_target_day]
             days == trading_days_to_target(pol, t, next_target_day)
         IN  IF days = 0
             THEN [raised |-> NoError, result |-> current_weights]
             ELSE [raised |-> NoError,
                   result |-> add(current_weights,
                                  div(sub(next_target, current_weights), days))]

\* the weights a backtest starts from, in eighths
ProportionalCurrentWeights == { <<0, 8>>, <<12, -4>>, <<5, 3>> }

\* one day of a backtest: the policy is refreshed on a first day of the calendar, or
\* on the trading day after the day of the latest refresh, at the weights the latest
\* refresh returned; sol holds the weights of the portfolio and trace the days of the
\* refreshes
ProportionalValuesInTime(t) ==
    /\ policy # None
    /\ t \in calendar_times
    /\ outcome # None => (outcome.raised = NoError /\ t = outcome.t + 1)
    /\ \E r \in {ProportionalTradeToTargets_values_in_time(policy, t, sol)} :
          /\ outcome' = [raised |-> r.raised, returned |-> r.result, t |-> t,
                         current_weights |-> sol]
          /\ sol' = IF r.raised = NoError THEN r.result ELSE sol
    /\ trace' = Append(trace, t)
    /\ UNCHANGED <<policy, problem>>
    /\ UNCHANGED fvars

InitProportional ==
    /\ returns = <<>>
    /\ fc = <<>>
    /\ cache = <<>>
    /\ runs = <<>>
    /\ last = NoCall
    /\ policy \in {ProportionalTradeToTargets_initialize_estimator(
                       ProportionalTradeToTargets(targets), trading_calendar) :
                       targets \in Targets}
    /\ problem = None
    /\ sol \in ProportionalCurrentWeights
    /\ trace = <<>>
    /\ outcome = None

NextProportional == \E t \in calendar_times : ProportionalValuesInTime(t)

SpecProportional == InitProportional /\ [][NextProportional]_vars

----------------------------------------------------------------------------
(* The policy that ranks the assets by a signal *)

\* the universe of the ranking policy: three assets and the cash account, the last
RankColumns == <<"AAPL", "MSFT", "ZM", "cash">>

\* index[:-1]: the positions of the assets that are not the cash
RankAssets == 1..(Len(RankColumns) - 1)

\* the signals of the assets
Signals == [RankAssets -> 1..3]

\* an estimator of user-provided data that does not vary in time, after its refresh
DataEstimator_of_constant(data) == [data |-> data, current_value |-> data]

\* RankAndLongShort(signal, num_long, num_short, target_leverage)
RankAndLongShort(signal, num_long, num_short, target_leverage) ==
    [cls |-> "RankAndLongShort",
     num_long |-> DataEstimator_of_constant(num_long),
     num_short |-> DataEstimator_of_constant(num_short),
     signal |-> DataEstimator_of_constant(signal),
     target_leverage |-> DataEstimator_of_constant(target_leverage)]

\* pd.Series.sort_values: the orders of the assets by ascending signal; the order of
\* assets of equal signal is the sorting algorithm's
sort_values(signal) ==
    {order \in [RankAssets -> RankAssets] :
        /\ \A i, j \in RankAssets : i # j => order[i] # order[j]
        /\ \A i, j \in RankAssets : i < j => signal[order[i]] <= signal[order[j]]}

\* a Python slice of a sequence of length n, index[:stop] and index[-k:]: the
\* positions it selects; -0 is 0, and index[-0:] is the whole sequence
slice_to(n, stop) == {i \in 1..n : i <= stop}
slice_from_minus(n, k) == IF k = 0 THEN 1..n ELSE {i \in 1..n : i > n - k}

\* RankAndLongShort.values_in_time, for one of the orders of the sort: the weights are
\* fractions <<numerator, denominator>>
RankAndLongShort_values_in_time(pol, sorted_ret) ==
    LET n == Len(RankColumns) - 1
        short_positions ==
            {sorted_ret[i] : i \in slice_to(n, pol.num_short.current_value)}
        long_positions ==
            {sorted_ret[i] : i \in slice_from_minus(n, pol.num_long.current_value)}
        target_weights ==
            [a \in RankAssets |-> IF a \in long_positions THEN 1
                                  ELSE IF a \in short_positions THEN 0 - 1 ELSE 0]
        sum_abs == Cardinality({a \in RankAssets : target_weights[a] # 0})
    IN  [a \in DOMAIN RankColumns |->
            IF a = Len(RankColumns) THEN Frac(1, 1)
            ELSE Frac(target_weights[a] * pol.target_leverage.current_value, sum_abs)]

\* one call of values_in_time on the policy
RankValuesInTime ==
    /\ policy # None
    /\ \E sorted_ret \in sort_values(policy.signal.current_value) :
          outcome' = [returned |-> RankAndLongShort_values_in_time(policy, sorted_ret),
                      sorted_ret |-> sorted_ret]
    /\ UNCHANGED <<policy, problem, sol, trace>>
    /\ UNCHANGED fvars

InitRank ==
    /\ returns = <<>>
    /\ fc = <<>>
    /\ cache = <<>>
    /\ runs = <<>>
    /\ last = NoCall
    /\ policy \in {RankAndLongShort(signal, num_long, num_short, target_leverage) :
                      signal \in Signals, num_long \in 0..3, num_short \in 0..3,
                      target_leverage \in {1, 2}}
    /\ problem = None
    /\ sol = None
    /\ trace = <<>>
    /\ outcome = None

NextRank == RankValuesInTime

SpecRank == InitRank /\ [][NextRank]_vars

----------------------------------------------------------------------------
(* The exceptions of the policies and of the forecasters: what each carries, the
   class of the component and the time where its arguments or its message hold them,
   None and NoTime where they do not, and the exception it is raised from *)

\* Policy.execute: DataError(f"Holdings provided to {class}.execute have negative sum.")
DataError_execute(cls) ==
    [type |-> "DataError", component |-> cls, t |-> NoTime, cause |-> None]

\* MultiPeriodOptimization.values_in_time_recursive:
\* DataError("Policy %s was evaluated at %s with negative portfolio value.", class, t)
DataError_values_in_time_recursive(cls, t) ==
    [type |-> "DataError", component |-> cls, t |-> t, cause |-> None]

\* MultiPeriodOptimization.values_in_time_recursive:
\* PortfolioOptimizationError("... policy %s at time %s ...", class, t), raised from
\* the SolverError of the solver or, on the status of the program, from nothing
PortfolioOptimizationError(cls, t, exc) ==
    [type |-> "PortfolioOptimizationError", component |-> cls, t |-> t, cause |-> exc]

\* HistoricalLowRankCovarianceSVD.build_low_rank_model, a static method:
\* ForecastError("Low rank risk estimation with iterative SVD did not work. ...")
ForecastError_build_low_rank_model ==
    [type |-> "ForecastError", component |-> None, t |-> NoTime, cause |-> None]

\* HistoricalFactorizedCovariance.values_in_time:
\* ForecastError(f"Covariance estimation at time {t} failed; ...") from the LinAlgError
ForecastError_values_in_time(t, exc) ==
    [type |-> "ForecastError", component |-> None, t |-> t, cause |-> exc]

----------------------------------------------------------------------------
(* The policy of uniform weights *)

\* the weight one of the uniform policy: its weights are counted in 64ths
One == 64

\* the universes the policy is initialized for: one to five assets, then the cash
UniformUniverses ==
    { <<"AAPL", "cash">>, <<"AAPL", "MSFT", "cash">>, <<"AAPL", "MSFT", "GE", "cash">>,
      <<"AAPL", "MSFT", "GE", "ZM", "cash">>,
      <<"AAPL", "MSFT", "GE", "ZM", "META", "cash">> }

\* the leverages: a quarter, a half, one, one and a half, two
Leverages == {16, 32, 64, 96, 128}

\* Uniform(leverage)
Uniform(leverage) ==
    [cls |-> "Uniform", leverage |-> leverage, target_weights |-> None,
     _current_value |-> None]

\* a vector of ones over the universe, the cash too
ones_WithCash(U) == [k \in DOMAIN U |-> One]

\* pd.Series(1., universe) with iloc[-1] = 0: one for every asset, zero for the cash
ones(U) == [k \in DOMAIN U |-> IF k = Len(U) THEN 0 ELSE One]

\* the sum of the first k entries of a vector, added one after the other in floating
\* point
RECURSIVE float_sum(_, _)
float_sum(a, k) == IF k = 0 THEN 0 ELSE float(float_sum(a, k - 1) + a[k])

\* Uniform.initialize_estimator: the ones are divided by their sum, multiplied by the
\* leverage, and the cash is set to one minus the sum of the result
Uniform_initialize_estimator(pol, U) ==
    LET s == float_sum(ones(U), Len(U))
        divided == [k \in DOMAIN U |-> float_div(ones(U)[k] * One, s)]
        levered == [k \in DOMAIN U |-> float_div(divided[k] * pol.leverage, One)]
        target_weights ==
            [k \in DOMAIN U |-> IF k = Len(U)
                                THEN float(One - float_sum(levered, Len(U)))
                                ELSE levered[k]]
    IN  [pol EXCEPT !.target_weights = DataEstimator(target_weights)]

\* FixedWeights.values_in_time_recursive on the policy of uniform weights: the target
\* weights do not vary in time, and their refresh leaves them as their current value
Uniform_values_in_time_recursive(pol, current_weights) ==
    LET c == DataEstimator_of_constant(pol.target_weights.data)
        result == sub(add(current_weights, c.current_value), current_weights)
    IN  [policy |-> [pol EXCEPT !.target_weights = c, !._current_value = result],
         raised |-> NoError, result |-> result]

\* the current weights the policy is evaluated at: all in the first asset, all in
\* cash, short the first asset, and a quarter of the first asset
UniformCurrentWeights(U) ==
    {[k \in DOMAIN U |-> IF k = 1 THEN w1 ELSE IF k = Len(U) THEN One - w1 ELSE 0] :
        w1 \in {One, 0, 0 - 32, 16}}

\* the initialization of the policy for a universe
UniformInitialize(U) ==
    /\ policy # None
    /\ policy' = Uniform_initialize_estimator(policy, U)
    /\ outcome' = None
    /\ UNCHANGED <<problem, sol, trace>>
    /\ UNCHANGED fvars

\* one call of values_in_time_recursive on the initialized policy
UniformValuesInTime(current_weights) ==
    /\ policy # None
    /\ policy.target_weights # None
    /\ DOMAIN current_weights = DOMAIN policy.target_weights.data
    /\ \E r \in {Uniform_values_in_time_recursive(policy, current_weights)} :
          /\ policy' = r.policy
          /\ outcome' = [raised |-> r.raised, returned |-> r.result,
                         current_weights |-> current_weights]
    /\ UNCHANGED <<problem, sol, trace>>
    /\ UNCHANGED fvars

InitUniform ==
    /\ returns = <<>>
    /\ fc = <<>>
    /\ cache = <<>>
    /\ runs = <<>>
    /\ last = NoCall
    /\ policy \in {Uniform(leverage) : leverage \in Leverages}
    /\ problem = None
    /\ sol = None
    /\ trace = <<>>
    /\ outcome = None

NextUniform ==
    \/ \E U \in UniformUniverses : UniformInitialize(U)
    \/ \E U \in UniformUniverses :
          \E current_weights \in UniformCurrentWeights(U) :
              UniformValuesInTime(current_weights)

SpecUniform == InitUniform /\ [][NextUniform]_vars

----------------------------------------------------------------------------
(* The low-rank model of HistoricalLowRankCovarianceSVD, on any history *)

\* the numbers of the low-rank model are counted in quarters, their squares and
\* products in sixteenths
Scale == 4

\* past_returns.iloc[:, :-1]: the columns of the assets
drop_cash(past) == [r \in 1..Len(past) |-> [c \in NonCash |-> past[r][c]]]

\* normalizer = np.sqrt((rets**2).mean()) of one column, in quarters: the mean of the
\* squares skips the missing cells, and is no number when every cell is missing; the
\* square root is rounded to the nearest quarter
normalizer(rets, c) ==
    IF count(rets, c) = 0 THEN NaN
    ELSE << CHOOSE r \in 0..(Scale * 2) :
               /\ (2 * r - 1) * (2 * r - 1) * count(rets, c)
                      <= 4 * sumsq(rets, c) * Scale * Scale
               /\ 4 * sumsq(rets, c) * Scale * Scale
                      < (2 * r + 1) * (2 * r + 1) * count(rets, c) >>

\* the loadings F the singular value decompositions leave, one factor, in quarters
Loadings == [NonCash -> {0, 4, 6, 7}]

\* idyosyncratic = normalizer**2 - (F**2).sum(0), in sixteenths
idyosyncratic(rets, F) ==
    [c \in NonCash |->
        IF isnull(normalizer(rets, c)) THEN NaN
        ELSE << normalizer(rets, c)[1] * normalizer(rets, c)[1] - F[c] * F[c] >>]

\* a test that passes when some idiosyncratic variance is not negative
all_nonnegative_Any(idio) == \E c \in DOMAIN idio : ~isnull(idio[c]) /\ idio[c][1] >= 0

\* np.all(idyosyncratic >= 0.): a comparison with no number is false
all_nonnegative(idio) == \A c \in DOMAIN idio : ~isnull(idio[c]) /\ idio[c][1] >= 0

\* build_low_rank_model on returns rets, with the loadings F its singular value
\* decompositions leave
build_low_rank_model_with(rets, svd, F) ==
    IF svd # "numpy"
    THEN [raised |-> "SyntaxError", exception |-> None, result |-> None]
    ELSE IF ~all_nonnegative(idyosyncratic(rets, F))
    THEN [raised |-> "ForecastError", exception |-> ForecastError_build_low_rank_model,
          result |-> None]
    ELSE [raised |-> "", exception |-> None, result |-> <<F, idyosyncratic(rets, F)>>]

\* the call of build_low_rank_model on the returns before t
BuildLowRankModel(t, svd, F) ==
    /\ outcome = None
    /\ \E r \in {build_low_rank_model_with(drop_cash(past_returns(t)), svd, F)} :
          outcome' = [t |-> t, svd |-> svd, F |-> F, raised |-> r.raised,
                      returned |-> r.result]
    /\ UNCHANGED <<policy, problem, sol, trace>>
    /\ UNCHANGED fvars

InitLowRank ==
    /\ returns \in Histories
    /\ fc = <<>>
    /\ cache = <<>>
    /\ runs = <<>>
    /\ last = NoCall
    /\ NoPolicy

NextLowRank ==
    \E t \in Times, svd \in {"numpy", "scipy"}, F \in Loadings : BuildLowRankModel(t, svd, F)

SpecLowRank == InitLowRank /\ [][NextLowRank]_vars

----------------------------------------------------------------------------
(* One forecaster refreshed at any sequence of times on one history, the cached one
   with a cache that holds values already *)

\* the forecasters refreshed
RefreshedForecasters ==
    {HistoricalMeanReturn, HistoricalVariance(TRUE), HistoricalVariance(FALSE),
     HistoricalFactorizedCovariance(TRUE)}

\* the value the cache holds for a time before the run, loaded from disk
loaded(t) == <<"loaded", t>>

\* the caches the run starts with: empty, or the entry of the forecaster holds a
\* value for each time of any subset of the times
LoadedCaches ==
    {<<>>} \cup {<< [key |-> 1, vals |-> [t \in S |-> loaded(t)]] >> : S \in SUBSET Times}

\* the histories: rows without a missing value and rows with one, of either asset
RefreshHistories ==
    [1..MaxT -> {<< <<1>>, <<2>>, <<0>> >>, << <<2>>, NaN, <<0>> >>,
                 << NaN, <<1>>, <<0>> >>}]

InitRefresh ==
    /\ returns \in RefreshHistories
    /\ fc \in [{1} -> RefreshedForecasters]
    /\ cache \in IF fc[1].cls = "HistoricalFactorizedCovariance"
                 THEN LoadedCaches ELSE {<<>>}
    /\ runs = [k \in DOMAIN cache |-> [s \in Times |-> NoRuns]]
    /\ last = NoCall
    /\ NoPolicy

NextRefresh ==
    \/ \E i \in DOMAIN fc, t \in Times : MeanValuesInTime(i, t)
    \/ \E i \in DOMAIN fc, t \in Times : VarianceValuesInTime(i, t)
    \/ \E i \in DOMAIN fc, t \in Times : CachedValuesInTime(i, t)

SpecRefresh == InitRefresh /\ [][NextRefresh]_vars

----------------------------------------------------------------------------
(* The result of a backtest, logged period after period: result.py; problem holds the
   BacktestResult and trace the universes logged *)

\* the assets, in alphabetical order, and the cash key
alphabetical == <<"AAPL", "MSFT", "ZM">>
cash == "cash"

\* the elements of a pandas Index
Range(index) == {index[k] : k \in DOMAIN index}

\* sorted(set): the assets of the set in alphabetical order
sorted(S) ==
    LET member(a) == a \in S IN SelectSeq(alphabetical, member)

\* the universes of the holdings logged: assets in the order of the market data, here
\* alphabetical or not, then the cash key
ResultUniverses ==
    {sorted(S) \o <<cash>> : S \in SUBSET Range(alphabetical)}
        \cup {<<"MSFT", "AAPL", cash>>}

\* pd.DataFrame(index=trading_calendar, columns=universe, dtype=float): no value yet
DataFrame(index, cols) ==
    [columns |-> cols, data |-> [n \in DOMAIN index |-> [k \in DOMAIN cols |-> NaN]]]

\* BacktestResult(universe, trading_calendar, costs)
BacktestResult(U, calendar) ==
    [_h |-> DataFrame(calendar, U), _u |-> DataFrame(calendar, U),
     _z |-> DataFrame(calendar, U), _current_universe |-> U,
     _indexer |-> [k \in DOMAIN U |-> k]]

\* Index.get_indexer: the position in the columns of every label, 0 where it is none
get_indexer(cols, labels) ==
    [k \in DOMAIN labels |->
        IF labels[k] \in Range(cols)
        THEN CHOOSE p \in DOMAIN cols : cols[p] = labels[k]
        ELSE 0]

\* DataFrame.reindex(columns=joined): the columns that stay keep their values, the
\* new ones have none, the others are dropped
reindex(df, joined) ==
    [columns |-> joined,
     data |-> [n \in DOMAIN df.data |->
                  [k \in DOMAIN joined |->
                      IF joined[k] \in Range(df.columns)
                      THEN df.data[n][get_indexer(df.columns, joined)[k]]
                      ELSE NaN]]]

\* the columns _change_universe reindexes to: the new universe if it holds the current
\* one, and else the sorted union of the assets of both; Index.append returns a new
\* Index, which is dropped, and joined stays without the cash key
joined(current, new) ==
    IF Range(current) \subseteq Range(new) THEN new
    ELSE sorted((Range(current) \ {current[Len(current)]})
                    \cup (Range(new) \ {new[Len(new)]}))

\* BacktestResult._change_universe
_change_universe(res, new_universe) ==
    LET expand == ~(Range(new_universe) \subseteq Range(res._current_universe))
        columns1 == joined(res._current_universe, new_universe)
        res1 == IF expand
                THEN [res EXCEPT !._h = reindex(@, columns1), !._u = reindex(@, columns1),
                                 !._z = reindex(@, columns1)]
                ELSE res
    IN  IF expand /\ new_universe[Len(new_universe)]
                        # res._current_universe[Len(res._current_universe)]
        THEN [result |-> res, raised |-> Error("AssertionError", 0, 0)]
        ELSE IF ~(Range(new_universe) \subseteq Range(res1._h.columns))
        THEN [result |-> res1, raised |-> Error("AssertionError", 0, 0)]
        ELSE [result |-> [res1 EXCEPT !._current_universe = new_universe,
                                      !._indexer = get_indexer(res1._h.columns,
                                                               new_universe)],
              raised |-> NoError]

\* df.iloc[tidx, indexer] = values: the values are logged as 1
iloc_set(df, tidx, indexer) ==
    [df EXCEPT !.data[tidx] =
        [k \in DOMAIN @ |-> IF \E m \in DOMAIN indexer : indexer[m] = k THEN <<1>> ELSE @[k]]]

\* BacktestResult._log_trading at the period tidx, of holdings, trades and policy
\* trades indexed by h_index
_log_trading(res, tidx, h_index) ==
    LET changed == IF h_index # res._current_universe
                   THEN _change_universe(res, h_index)
                   ELSE [result |-> res, raised |-> NoError]
        r == changed.result
    IN  IF changed.raised # NoError THEN changed
        ELSE [result |-> [r EXCEPT !._h = iloc_set(@, tidx, r._indexer),
                                   !._u = iloc_set(@, tidx, r._indexer),
                                   !._z = iloc_set(@, tidx, r._indexer)],
              raised |-> NoError]

\* the next period of the backtest is logged, with holdings of any universe
LogTrading(h_index) ==
    /\ problem # None
    /\ Len(trace) < Len(trading_calendar)
    /\ outcome # None => outcome.raised = NoError
    /\ \E r \in {_log_trading(problem, Len(trace) + 1, h_index)} :
          /\ problem' = r.result
          /\ outcome' = [raised |-> r.raised, old_universe |-> problem._current_universe,
                         new_universe |-> h_index]
    /\ trace' = Append(trace, h_index)
    /\ UNCHANGED <<policy, sol>>
    /\ UNCHANGED fvars

InitResult ==
    /\ returns = <<>>
    /\ fc = <<>>
    /\ cache = <<>>
    /\ runs = <<>>
    /\ last = NoCall
    /\ policy = None
    /\ problem \in {BacktestResult(U, trading_calendar) : U \in ResultUniverses}
    /\ sol = None
    /\ trace = <<>>
    /\ outcome = None

NextResult == \E h_index \in ResultUniverses : LogTrading(h_index)

SpecResult == InitResult /\ [][NextResult]_vars

----------------------------------------------------------------------------
(* Properties of the optimization policy *)

\* the events of the refresh of a policy and of its solve
RefreshEvents ==
    {"refresh_objective", "refresh_constraint", "refresh_benchmark",
     "set_parameters", "solve"}

\* the events of the initialization of a policy, the compilation included
InitializeEvents ==
    {"initialize_objective", "initialize_constraint", "initialize_benchmark",
     "allocate", "reset_cache", "_compile_to_cvxpy", "compile_objective",
     "compile_constraint", "Problem"}

\* the places of the events of some names in a trace
places(tr, names) == {n \in DOMAIN tr : tr[n][1] \in names}

\* every event of the first names is before every event of the second names
before(tr, names1, names2) ==
    \A n \in places(tr, names1), m \in places(tr, names2) : n < m

NotDcpStages == {i \in Stages(policy) : policy.objective[i].curvature = "UNKNOWN"}
NotConcaveStages == {i \in Stages(policy) : policy.objective[i].curvature = "CONVEX"}

\* the constraints of the policy, as stage and position, with a part that is not DCP
NotDcpConstraints ==
    {ij \in {<<i, j>> : i \in Stages(policy), j \in 1..2} :
        /\ ij[2] \in DOMAIN policy.constraints[ij[1]]
        /\ \E p \in DOMAIN policy.constraints[ij[1]][ij[2]].parts :
              ~policy.constraints[ij[1]][ij[2]].parts[p].is_dcp}

\* the call raised this error on the object at stage i, position j, during the
\* compilation, and neither refreshed an estimator nor invoked the solver
RaisedAtCompileTime(name, i, j) ==
    /\ outcome.raised = Error(name, i, j)
    /\ outcome.returned = None
    /\ trace[Len(trace)][1] \in {"compile_objective", "compile_constraint"}
    /\ places(trace, RefreshEvents) = {}
    /\ sol = None

\* C8: in a call that reaches the compilation, the first stage whose objective term
\* fails a check raises ConvexSpecificationError if the term is outside the DCP
\* grammar and ConvexityError if it is DCP but not concave; with every objective
\* concave, the first constraint that has a part outside DCP raises
\* ConvexSpecificationError; each is raised at compile time, the solver never invoked.
C8_RejectedAtCompileTime ==
    occurrences(trace, "_compile_to_cvxpy") = 1
        => /\ \A i \in NotDcpStages :
                (\A j \in NotDcpStages \cup NotConcaveStages : i <= j)
                    => RaisedAtCompileTime("ConvexSpecificationError", i, 0)
           /\ \A i \in NotConcaveStages :
                (\A j \in NotDcpStages \cup NotConcaveStages : i <= j)
                    => RaisedAtCompileTime("ConvexityError", i, 0)
           /\ \A ij \in NotDcpConstraints :
                (/\ NotDcpStages \cup NotConcaveStages = {}
                 /\ \A gh \in NotDcpConstraints :
                       ij[1] < gh[1] \/ (ij[1] = gh[1] /\ ij[2] <= gh[2]))
                    => RaisedAtCompileTime("ConvexSpecificationError", ij[1], ij[2])
           /\ (NotDcpStages \cup NotConcaveStages # {} \/ NotDcpConstraints # {})
                => /\ outcome.raised[1] \in {"ConvexSpecificationError", "ConvexityError"}
                   /\ occurrences(trace, "solve") = 0

\* the second constraint of the second stage, whose compilation is a DCP part and a part
\* that is not, is rejected after the objectives and the constraints before it passed
C8_Witness ==
    /\ outcome # None
    /\ Len(policy.constraints) >= 2
    /\ Len(policy.constraints[2]) = 2
    /\ RaisedAtCompileTime("ConvexSpecificationError", 2, 2)

\* C9 as the specification states it: ConvexityError is raised before the market
\* data's serve is called.
C9_RaisedBeforeServe ==
    (outcome # None /\ outcome.raised[1] = "ConvexityError")
        => occurrences(trace, "serve") = 0

\* C9, as the code has it: a call with a time of the calendar and a total of holdings
\* that is not negative, on a policy whose first objective term to fail a check is DCP
\* and not concave, raises ConvexityError at initialization: after the one serve of
\* the market data, before any refresh of an estimator and any solve.
C9_RaisedAfterServe ==
    /\ (/\ occurrences(trace, "serve") = 1
        /\ NotConcaveStages # {}
        /\ \A i \in NotDcpStages : \E j \in NotConcaveStages : j < i)
          => outcome.raised[1] = "ConvexityError"
    /\ (outcome # None /\ outcome.raised[1] = "ConvexityError")
          => /\ occurrences(trace, "serve") = 1
             /\ before(trace, {"serve"}, InitializeEvents)
             /\ trace[Len(trace)][1] = "compile_objective"
             /\ places(trace, RefreshEvents) = {}

\* a policy of two stages, the second of them not concave, executed on holdings of
\* positive total: the data was served and ConvexityError raised
C9_Witness ==
    /\ outcome # None
    /\ outcome.raised = Error("ConvexityError", 2, 0)
    /\ occurrences(trace, "serve") = 1
    /\ ~outcome.compiled_before

\* the sum of entry k of the trades of the stages 1..i
RECURSIVE cumulative_trades(_, _, _)
cumulative_trades(a, i, k) ==
    IF i = 0 THEN 0 ELSE a[<<"z", i, k>>] + cumulative_trades(a, i - 1, k)

\* C10: in every assignment of the variables that satisfies the constraints of the
\* compiled program, under the current weights and the benchmark weights set in its
\* parameters, the post-trade weights of every stage are the current weights plus the
\* trades of the stages up to it, and its benchmark-relative weights are its post-trade
\* weights minus the benchmark weights.
C10_DynamicsOfFeasible ==
    (problem # None /\ policy.w_current # None)
        => \A a \in solutions[[problem EXCEPT !.status = ""]][policy.w_current] :
           \A i \in Stages(policy), k \in DOMAIN columns :
              /\ a[<<"w_plus", i, k>>]
                   = policy.w_current[k] + cumulative_trades(a, i, k)
              /\ a[<<"w_plus_minus_w_bm", i, k>>]
                   = a[<<"w_plus", i, k>>] - policy.w_bm[k]

\* a program of two stages solved with a trade at both
C10_Witness ==
    /\ sol # None
    /\ policy._planning_horizon = 2
    /\ sol[<<"z", 1, 1>>] # 0
    /\ sol[<<"z", 2, 1>>] # 0
    /\ sol[<<"w_plus", 2, 1>>] = policy.w_current[1] + sol[<<"z", 1, 1>>] + sol[<<"z", 2, 1>>]

\* the solver ended the last call with an optimum
Solved == problem # None /\ problem.status \in {"optimal", "optimal_inaccurate"}

\* C11: the compiled program has the budget constraint sum(z_i) = 0 of every stage;
\* the first-stage trade of every assignment that satisfies the program sums to zero,
\* and after a call that the solver ended with an optimum the trade left in the
\* variables sums to zero and the post-trade weights stored and returned sum to what
\* the current weights sum to.
C11_BudgetOfEveryStage ==
    problem # None
        => /\ \A i \in Stages(policy) :
                \E n \in DOMAIN problem.constraints :
                    /\ problem.constraints[n].type = "budget"
                    /\ problem.constraints[n].i = i
                    /\ problem.constraints[n].rel = "sum(z) == 0"
           /\ policy.w_current # None
                => \A a \in solutions[[problem EXCEPT !.status = ""]][policy.w_current] :
                      np_sum([k \in DOMAIN columns |-> a[<<"z", 1, k>>]]) = 0
           /\ Solved
                => /\ np_sum([k \in DOMAIN columns |-> sol[<<"z", 1, k>>]]) = 0
                   /\ np_sum(policy._current_value) = np_sum(policy.w_current)
                   /\ outcome.raised = NoError => np_sum(outcome.returned.u) = 0

\* a call solved with a trade that moves the holdings from cash into the asset
C11_Witness ==
    /\ Solved
    /\ outcome.raised = NoError
    /\ sol[<<"z", 1, 1>>] = 1
    /\ sol[<<"z", 1, 2>>] = -1
    /\ policy._current_value = <<1, 0>>

\* a vector of weights or of trades has a number in every entry
holds_numbers(x) == x # None /\ ToString(x) # ToString(NaNs)

\* C12: a call in which the solver raises SolverError (the program keeps the status it
\* was compiled with) or ends as infeasible, infeasible_inaccurate, unbounded or
\* unbounded_inaccurate raises PortfolioOptimizationError; a call that raises it has
\* invoked the solver exactly once, returns nothing, and leaves in the policy the
\* current value it had before the call.
C12_SolverFailureSurfaces ==
    [][/\ (/\ occurrences(trace', "solve") = 1
           /\ problem'.status \in {"", "infeasible", "infeasible_inaccurate",
                                   "unbounded", "unbounded_inaccurate"})
             => outcome'.raised = Error("PortfolioOptimizationError", 0, 0)
       /\ outcome'.raised[1] = "PortfolioOptimizationError"
             => /\ occurrences(trace', "solve") = 1
                /\ trace'[Len(trace')][1] = "solve"
                /\ outcome'.returned = None
                /\ sol' = None
                /\ policy'._current_value = policy._current_value]_vars

\* a policy that holds the post-trade weights of an earlier call is executed again, the
\* solver finds the program infeasible, and the weights of the earlier call are kept
C12_Witness ==
    /\ outcome # None
    /\ outcome.compiled_before
    /\ outcome.raised = Error("PortfolioOptimizationError", 0, 0)
    /\ problem.status = "infeasible"
    /\ holds_numbers(policy._current_value)
    /\ policy._current_value = <<1, 0>>
    /\ policy.w_current = <<0, 1>>

\* C13: a call that has invoked the solver returns a trade only if the solver ended as
\* optimal or optimal_inaccurate; with any other status of the solver, error included,
\* the call returns nothing and raises.
C13_TradeOnlyIfOptimal ==
    (/\ outcome # None
     /\ occurrences(trace, "solve") = 1
     /\ problem.status \notin {"optimal", "optimal_inaccurate"})
        => /\ outcome.returned = None
           /\ outcome.raised # NoError

\* a policy as its constructor leaves it: what the calls have stored in it is dropped
constructed(pol) ==
    [pol EXCEPT !.w_bm = None, !.w_current = None, !._cache = None,
                !._current_value = None]

\* the multi-period policy of one stage in the state of the single-period policy pol
as_MultiPeriodOptimization(pol) == [pol EXCEPT !.cls = "MultiPeriodOptimization"]

\* the solver outcomes of a call that has begun and the values left in the variables
outcomes_of(begun, values) ==
    IF values # None THEN {"optimal", "optimal_inaccurate"}
    ELSE IF begun.raised = NoError /\ begun.v > 0
    THEN SolverOutcomes \ {"optimal", "optimal_inaccurate"}
    ELSE {"SolverError"}

\* C14: a policy built as SinglePeriodOptimization(objective, constraints,
\* include_cash_return) is, but for its class, the policy built as
\* MultiPeriodOptimization(objective, constraints, include_cash_return,
\* planning_horizon=1): one stage, the same objective with the cash-return term when
\* enabled, the same constraints and benchmark; the two compile to the same program or
\* raise the same error, and from the same state, on the same holdings, time, prices,
\* solver outcome and values, execute returns the same trade and raises the same error.
C14_SinglePeriodIsOneStage ==
    \A objective \in Costs, constraints \in ConstraintLists, icr \in BOOLEAN :
        (/\ policy.cls = "SinglePeriodOptimization"
         /\ constructed(policy) = SinglePeriodOptimization(objective, constraints, icr))
        => \E mpo \in {as_MultiPeriodOptimization(policy)} :
           /\ constructed(mpo) = MultiPeriodOptimization(objective, constraints, icr, 1, None)
           /\ mpo._planning_horizon = 1 /\ policy._planning_horizon = 1
           /\ Len(policy.objective) = 1
           /\ policy.objective[1] = (IF icr THEN plus_CashReturn(objective) ELSE objective)
           /\ policy.constraints = <<constraints>>
           /\ _compile_to_cvxpy(policy) = _compile_to_cvxpy(mpo)
           /\ \A h \in Holdings, t \in ExecuteTimes :
              \E b1 \in {execute_begin(policy, problem, sol, h, t)},
                 b2 \in {execute_begin(mpo, problem, sol, h, t)} :
              \A values \in found(b1) \cup {None}, current_prices \in Prices :
              \A solver \in outcomes_of(b1, values) :
              \E r1 \in {execute_end(b1, current_prices, solver, values)},
                 r2 \in {execute_end(b2, current_prices, solver, values)} :
                 /\ found(b1) = found(b2)
                 /\ r1.returned = r2.returned
                 /\ r1.raised = r2.raised
                 /\ r1.sol = r2.sol
                 /\ r1.problem = r2.problem
                 /\ r1.trace = r2.trace
                 /\ r2.policy = as_MultiPeriodOptimization(r1.policy)

\* a single-period policy with the cash-return term, a constraint and a trade solved
C14_Witness ==
    /\ policy.cls = "SinglePeriodOptimization"
    /\ policy._include_cash_return
    /\ policy.constraints = << <<LongOnly>> >>
    /\ Solved
    /\ outcome.raised = NoError
    /\ outcome.returned.u = <<2, -2>>

\* the time a call of execute is about: the one passed, or the last of the calendar
time_used(t) == IF t = NoTime THEN trading_calendar[Len(trading_calendar)] ELSE t

\* C15: an execute call at a time of the trading calendar with holdings whose sum is
\* negative raises DataError and returns nothing; the market data was not served and
\* nothing was initialized, compiled, refreshed or solved in the call; the policy, its
\* program and the values in its variables are what they were before the call.
C15_NegativeHoldingsRejected ==
    [][(/\ np_sum(outcome'.h) < 0
        /\ time_used(outcome'.t) \in calendar_times)
          => /\ outcome'.raised = Error("DataError", 0, 0)
             /\ outcome'.returned = None
             /\ trace' = << Event("sum", 0, 0) >>
             /\ places(trace', {"serve"} \cup InitializeEvents \cup RefreshEvents) = {}
             /\ policy' = policy
             /\ problem' = problem
             /\ sol' = sol
             /\ UNCHANGED fvars]_vars

\* a policy that an earlier call has compiled and solved is executed on holdings of
\* negative sum: it keeps its program, its solution and its post-trade weights
C15_Witness ==
    /\ outcome # None
    /\ outcome.h = <<-1, 0>>
    /\ outcome.raised = Error("DataError", 0, 0)
    /\ trace = << Event("sum", 0, 0) >>
    /\ Solved
    /\ sol # None
    /\ sol[<<"z", 1, 1>>] = 1
    /\ policy._current_value = <<1, 0>>

\* the absolute value of an integer
abs(n) == IF n < 0 THEN 0 - n ELSE n

\* s is round(u / price): the integer nearest to the quotient, the even one of the two
\* when the quotient is halfway between them
is_round(s, u, price) ==
    /\ 2 * abs(u - s * price) <= price
    /\ 2 * abs(u - s * price) = price => s % 2 = 0

\* C16: an execute call that raises nothing returns the time used, the one passed or
\* the last of the calendar, and the trade u = (w_plus - h / v) * v in dollars, that is
\* w_plus * v - h, with w_plus the post-trade weights of the policy and v the sum of
\* the holdings; the shares returned are None exactly when the market data served no
\* current prices, and else round(u_i / price_i) for every non-cash asset i. Where
\* the post-trade weights hold no number, neither does the trade.
C16_ExecuteOutputs ==
    (outcome # None /\ outcome.raised = NoError)
        => /\ outcome.returned.t = time_used(outcome.t)
           /\ (outcome.returned.shares_traded = None) <=> (outcome.current_prices = None)
           /\ IF holds_numbers(policy._current_value)
              THEN /\ \A k \in DOMAIN columns :
                         outcome.returned.u[k]
                           = policy._current_value[k] * np_sum(outcome.h) - outcome.h[k]
                   /\ outcome.current_prices # None
                        => /\ DOMAIN outcome.returned.shares_traded
                                = 1..(Len(columns) - 1)
                           /\ \A i \in 1..(Len(columns) - 1) :
                                 is_round(outcome.returned.shares_traded[i],
                                          outcome.returned.u[i],
                                          outcome.current_prices[i])
              ELSE ~holds_numbers(outcome.returned.u)

\* two dollars of cash are traded for the asset at a price of three: the quotient is
\* two thirds, and one share is bought
C16_Witness ==
    /\ outcome # None
    /\ outcome.raised = NoError
    /\ outcome.h = <<0, 2>>
    /\ outcome.current_prices = <<3>>
    /\ outcome.returned = Returned(<<2, -2>>, MaxT + 1, <<1>>)

----------------------------------------------------------------------------
(* Properties of the policies of fixed trades and of fixed weights *)

\* the estimator of the data of a fixed policy, and the row of the data at a time
child(pol) == IF pol.cls = "FixedTrades" THEN pol.trades_weights ELSE pol.target_weights
provided(pol, t) == [k \in DOMAIN child(pol).data[t] |-> child(pol).data[t][k][1]]

\* the refresh of the child at the time of the last call raises DataError
ChildRaisesDataError ==
    /\ outcome.t \in DOMAIN child(policy).data
    /\ \E k \in DOMAIN columns : isnull(child(policy).data[outcome.t][k])

\* C17: when the refresh of the child estimator raises an error that is not
\* MissingTimesError, here DataError, values_in_time_recursive of the policy raises
\* that same error and returns nothing.
C17_ChildErrorPropagates ==
    (outcome # None /\ ChildRaisesDataError)
        => /\ outcome.raised = Error("DataError", 0, 0)
           /\ outcome.returned = None

ulp(n) ==
    LET e == bit_length(abs(n)) - significand_bits
    IN  IF e <= 0 THEN 1 ELSE 2 ^ e

----------------------------------------------------------------------------
(* Properties of the initialization of a policy for a new universe *)

\* an incremental forecaster with no last-seen timestamp and no running counts or sums
Unset(f) ==
    /\ f._last_time = NoTime
    /\ IF f.cls = "HistoricalFactorizedCovariance"
       THEN /\ f._last_counts_matrix = None
            /\ f._last_sum_matrix = None
            /\ f._joint_mean = None
       ELSE /\ f._last_counts = None
            /\ f._last_sum = None
    /\ f.cls = "HistoricalVariance" => f.meanforecaster._last_time = NoTime

\* the value of a cached forecaster at t computed from nothing but the returns
FromScratch(f, t) ==
    IF f.cls = "HistoricalLowRankCovarianceSVD"
    THEN values_in_time(f, t, past_returns(t)).result
    ELSE project_on_psd_cone_and_factorize(
             covariance(_initial_compute(__post_init__(f), t, past_returns(t))))

\* C19: right after the initialization of a policy for a universe its cache is empty
\* and every incremental forecaster of its tree has no last-seen timestamp and no
\* running counts or sums; a refresh of a forecaster in that state recomputes from
\* scratch, over the returns of the new universe; the statistics a forecaster holds
\* are those of the returns of the current universe, and a value served from the cache
\* is the value computed from the returns of the current universe.
C19_InitializedAnew ==
    [][/\ last' = Initialized
            => /\ cache' = <<>>
               /\ policy'._cache = <<>>
               /\ \A i \in DOMAIN fc' : Incremental(fc'[i]) => Unset(fc'[i])
       /\ \A i \in DOMAIN fc :
            (/\ Incremental(fc[i]) /\ Unset(fc[i])
             /\ last'.i = i /\ last'.mode # "initialize")
            => /\ last'.mode = "scratch"
               /\ Stats(fc'[i]) = Stats(Scratch(fc[i], last'.t, past_returns(last'.t)))
       /\ \A i \in DOMAIN fc' :
            (Incremental(fc'[i]) /\ ~Unset(fc'[i]))
            => Stats(fc'[i])
                 = Stats(Scratch(fc'[i], fc'[i]._last_time,
                                 SubSeq(returns', 1, fc'[i]._last_time - 1)))
       /\ last'.mode = "hit"
            => last'.result = FromScratch(fc'[last'.i], last'.t)
      ]_vars

\* a policy whose forecasters hold counts and sums and whose cache holds values, of
\* the returns of one universe, was initialized for a universe with other returns
C19_Witness ==
    /\ last = Initialized
    /\ outcome.universe_changed
    /\ fc[2].cls = "HistoricalFactorizedCovariance"
    /\ outcome.refreshed = {1, 2}
    /\ outcome.cached = {1}

----------------------------------------------------------------------------
(* Properties of two policies *)

\* C18: a step of one policy, its initialization or its refresh, leaves every object
\* the other policy reaches, and the cache and the program of the other, as they were:
\* what no object reachable from both is to guarantee.
C18_InstancesDisjoint ==
    [][\A p \in {1, 2} :
          outcome'.p = p
          => /\ \A i \in reachable(policy[3 - p]) : fc'[i] = fc[i]
             /\ policy'[3 - p] = policy[3 - p]]_vars

----------------------------------------------------------------------------
(* Properties of the policy that trades in equal proportions to targets *)

\* the day of the first target at or after t, 0 if there is none
target_day(t) ==
    IF \E day \in DOMAIN policy.targets : day >= t
    THEN CHOOSE day \in DOMAIN policy.targets :
             day >= t /\ \A other \in DOMAIN policy.targets : other >= t => day <= other
    ELSE 0

\* the number of trading days in [t, day)
days_in(t, day) == Cardinality({c \in 2..(MaxT + 1) : c >= t /\ c < day})

\* an integer that is a floating-point number
representable(n) == n % ulp(n) = 0

----------------------------------------------------------------------------
(* Properties of the policy that ranks the assets by a signal *)

\* the assets of positive weight and those of negative weight in the returned weights
held_long == {a \in RankAssets : outcome.returned[a][1] > 0}
held_short == {a \in RankAssets : outcome.returned[a][1] < 0}

\* C22: for num_long >= 0 and num_short >= 0 with num_long + num_short at most the
\* number of assets, exactly num_long assets, of the highest signals, get one equal
\* positive weight, exactly num_short assets, of the lowest signals, get one equal
\* negative weight, every other asset gets weight zero and the cash weight one.
C22_LongHighestShortLowest ==
    (/\ outcome # None
     /\ policy.num_long.current_value + policy.num_short.current_value
            <= Cardinality(RankAssets))
        => /\ Cardinality(held_long) = policy.num_long.current_value
           /\ Cardinality(held_short) = policy.num_short.current_value
           /\ \A a, b \in held_long : outcome.returned[a] = outcome.returned[b]
           /\ \A a, b \in held_short : outcome.returned[a] = outcome.returned[b]
           /\ \A a \in held_long, b \in RankAssets \ held_long :
                  policy.signal.current_value[a] >= policy.signal.current_value[b]
           /\ \A a \in held_short, b \in RankAssets \ held_short :
                  policy.signal.current_value[a] <= policy.signal.current_value[b]
           /\ outcome.returned[Len(RankColumns)] = Frac(1, 1)

----------------------------------------------------------------------------
(* Properties of the exceptions *)

\* the DataError or PortfolioOptimizationError the latest execute call raised: the
\* DataError is the one of execute on holdings of negative sum, and else the one of
\* values_in_time_recursive
exception ==
    IF outcome.raised[1] = "DataError"
    THEN IF np_sum(outcome.h) < 0
         THEN DataError_execute(policy.cls)
         ELSE DataError_values_in_time_recursive(policy.cls, time_used(outcome.t))
    ELSE PortfolioOptimizationError(policy.cls, time_used(outcome.t), None)

\* C23: a DataError or PortfolioOptimizationError that an execute call raises carries
\* the class of the policy that failed and the time of the decision step.
C23_ErrorsCarryComponentAndTime ==
    (/\ outcome # None
     /\ outcome.raised[1] \in {"DataError", "PortfolioOptimizationError"})
        => /\ exception.component = "MultiPeriodOptimization"
           /\ exception.t = time_used(outcome.t)

----------------------------------------------------------------------------
(* Properties of the policy of uniform weights *)

\* the target weights of the initialized policy and the number of its assets
uniform_target == policy.target_weights.data
uniform_assets == Len(policy.target_weights.data) - 1

----------------------------------------------------------------------------
(* Properties of the snapshot execute passes to the policy *)

\* C25: execute reaches the call of values_in_time_recursive only with a portfolio
\* value that is strictly positive and with weights that are numbers and sum to one;
\* on holdings of zero or negative sum, at a time of the calendar, it raises DataError
\* and does not reach that call.
C25_RefreshOnPositiveValue ==
    [][\E begun \in {execute_begin(policy, problem, sol, outcome'.h, outcome'.t)} :
          /\ begun.raised = NoError
                => /\ begun.v > 0
                   /\ begun.w # None
                   /\ np_sum(begun.w) = 1
          /\ (np_sum(outcome'.h) <= 0 /\ time_used(outcome'.t) \in calendar_times)
                => /\ outcome'.raised = Error("DataError", 0, 0)
                   /\ begun.raised # NoError]_vars

----------------------------------------------------------------------------
(* Properties of the order of the steps of the optimization policy *)

\* the event of the trace happens, and before every event of the names
happens_before(event, names) ==
    \E n \in DOMAIN trace :
        /\ trace[n] = event
        /\ \A m \in places(trace, names) : n < m

\* C26: an initialization that allocates the variables has before that, and before
\* anything of the compilation, initialized the objective of every stage, every
\* constraint of every stage and the benchmark; a decision step that invokes the
\* solver has before that, and before it set the parameters of the benchmark and of
\* the current weights, refreshed the objective of every stage, with the index of the
\* stage, every constraint of every stage and the benchmark.
C26_InitializedAndRefreshedInOrder ==
    /\ occurrences(trace, "allocate") >= 1
         => \E later \in {{"allocate", "reset_cache", "_compile_to_cvxpy",
                           "compile_objective", "compile_constraint", "Problem"}} :
              /\ \A i \in 1..policy._planning_horizon :
                     happens_before(<<"initialize_objective", i, 0>>, later)
              /\ \A i \in 1..policy._planning_horizon :
                 \A j \in DOMAIN policy.constraints[i] :
                     happens_before(<<"initialize_constraint", i, j>>, later)
              /\ happens_before(<<"initialize_benchmark", 0, 0>>, later)
              /\ before(trace, {"allocate"}, {"_compile_to_cvxpy"})
    /\ occurrences(trace, "solve") >= 1
         => \E later \in {{"set_parameters", "solve"}} :
              /\ \A i \in 1..policy._planning_horizon :
                     happens_before(<<"refresh_objective", i, 0>>, later)
              /\ \A i \in 1..policy._planning_horizon :
                 \A j \in DOMAIN policy.constraints[i] :
                     happens_before(<<"refresh_constraint", i, j>>, later)
              /\ happens_before(<<"refresh_benchmark", 0, 0>>, later)
              /\ before(trace, {"set_parameters"}, {"solve"})
              /\ occurrences(trace, "set_parameters") = 1

\* a policy of two stages, with constraints in the second, was initialized, refreshed
\* and solved
C26_Witness ==
    /\ outcome # None
    /\ outcome.raised = NoError
    /\ policy._planning_horizon = 2
    /\ Len(policy.constraints[2]) >= 1
    /\ occurrences(trace, "allocate") = 1
    /\ occurrences(trace, "solve") = 1

----------------------------------------------------------------------------
(* Properties of the low-rank model *)

\* the idiosyncratic variances of the latest call of build_low_rank_model
computed == idyosyncratic(drop_cash(past_returns(outcome.t)), outcome.F)

\* C27: build_low_rank_model returns the pair of the loadings and of the idiosyncratic
\* variances only if every idiosyncratic variance is a number that is not negative,
\* and then every entry of the vector returned is not negative; if one is negative it
\* raises ForecastError and returns nothing.
C27_IdiosyncraticNonNegative ==
    (outcome # None /\ outcome.svd = "numpy")
        => /\ outcome.returned # None
                => /\ outcome.returned = <<outcome.F, computed>>
                   /\ \A c \in NonCash :
                          /\ ~isnull(outcome.returned[2][c])
                          /\ outcome.returned[2][c][1] >= 0
           /\ (\E c \in NonCash : ~isnull(computed[c]) /\ computed[c][1] < 0)
                => /\ outcome.raised = "ForecastError"
                   /\ outcome.returned = None
           /\ outcome.raised \in {"", "ForecastError"}
           /\ outcome.raised = "" <=> outcome.returned # None

\* the loadings leave a negative idiosyncratic variance for the second asset and a
\* positive one for the first: ForecastError
C27_Witness ==
    /\ outcome # None
    /\ outcome.raised = "ForecastError"
    /\ ~isnull(computed[1]) /\ computed[1][1] > 0
    /\ ~isnull(computed[2]) /\ computed[2][1] < 0

----------------------------------------------------------------------------
(* Properties of the refreshes of one forecaster on one history *)

\* C28: on one history, for any sequence of refresh times and any values the cache
\* holds already, a call served from the cache leaves the forecaster as it was, and a
\* call that computes leaves counts and sums equal to those of a computation from
\* scratch over the rows before t, and returns the value of those: the mean or the
\* variance, or the factor of the covariance, that fails exactly when the covariance
\* from scratch has no number in an entry.
C28_RefreshRefinesScratch ==
    [][/\ last'.mode = "hit"
            => /\ fc' = fc
               /\ last'.result = cache[1].vals[last'.t]
       /\ last'.mode \in {"scratch", "update"}
            => \E scratch \in {Scratch(fc'[last'.i], last'.t, past_returns(last'.t))} :
                 /\ Stats(fc'[last'.i]) = Stats(scratch)
                 /\ MeanOrVariance(fc'[last'.i])
                      => /\ fc'[last'.i].current_value = scratch.current_value
                         /\ last'.result = scratch.current_value
                 /\ fc'[last'.i].cls = "HistoricalFactorizedCovariance"
                      => IF LinAlgError(covariance(scratch))
                         THEN last'.raised = "ForecastError" /\ last'.result = None
                         ELSE /\ last'.raised = ""
                              /\ last'.result
                                   = project_on_psd_cone_and_factorize(covariance(scratch))
      ]_vars

\* the cached forecaster computed at 2, was served at 3 from the cache the run started
\* with, and at 4 computes from scratch over a history with a missing value
C28_Witness ==
    /\ fc[1].cls = "HistoricalFactorizedCovariance"
    /\ last.mode = "scratch"
    /\ last.t = 4
    /\ last.raised = ""
    /\ 3 \in DOMAIN cache[1].vals /\ cache[1].vals[3] = loaded(3)
    /\ 2 \in DOMAIN cache[1].vals /\ cache[1].vals[2] # loaded(2)
    /\ \E r \in 1..3 : isnull(returns[r][1])

\* the times for which the cache holds a value of the forecaster
cached_times(c) == IF c = <<>> THEN {} ELSE DOMAIN c[1].vals

\* the computations of the key of t that were invoked and those that returned
invoked(r, t) == IF r = <<>> THEN 0 ELSE r[1][t].n
returned_from(r, t) == IF r = <<>> THEN 0 ELSE r[1][t].returned

\* C29: a call whose computation raises stores no value, for its key or any other,
\* and the caller gets the ForecastError and no value; a later call with a key whose
\* computations all raised is not served from the cache: it invokes the computation.
C29_RaiseStoresNothing ==
    [][/\ last'.raised # ""
            => /\ last'.raised = "ForecastError"
               /\ last'.result = None
               /\ last'.mode \in {"scratch", "update"}
               /\ cached_times(cache') = cached_times(cache)
               /\ last'.t \notin cached_times(cache')
               /\ invoked(runs', last'.t) = invoked(runs, last'.t) + 1
       /\ (/\ fc[1].cls = "HistoricalFactorizedCovariance"
           /\ invoked(runs, last'.t) >= 1
           /\ returned_from(runs, last'.t) = 0
           /\ last'.t \notin cached_times(cache))
            => /\ last'.mode \in {"scratch", "update"}
               /\ invoked(runs', last'.t) = invoked(runs, last'.t) + 1
      ]_vars

\* the computation of a key raised for the second time, in a cache that holds values
\* of other keys
C29_Witness ==
    /\ last.raised = "ForecastError"
    /\ invoked(runs, last.t) = 2
    /\ returned_from(runs, last.t) = 0
    /\ last.t \notin cached_times(cache)
    /\ cached_times(cache) # {}

----------------------------------------------------------------------------
(* Properties of the result of a backtest *)

\* the tables of the holdings, of the trades and of the policy trades
tables == <<problem._h, problem._u, problem._z>>

\* C30: every call of _log_trading, with holdings of any universe that ends with the
\* cash key, completes; every asset of the universe before the call and of the one
\* logged is then a column of the three tables, and the cash key is their last column.
C30_UniverseChangesComplete ==
    outcome # None
        => /\ outcome.raised = NoError
           /\ \A n \in DOMAIN tables :
                 /\ Range(outcome.old_universe) \subseteq Range(tables[n].columns)
                 /\ Range(outcome.new_universe) \subseteq Range(tables[n].columns)
                 /\ tables[n].columns[Len(tables[n].columns)] = "cash"

============================================================================
